---- MODULE Spec2Model ----
(***************************************************************************)
(* blazel: declarative extract-load orchestrator.                          *)
(*                                                                         *)
(* The module models the catalog (base.py), the job planner (tasks.py),    *)
(* the load engine (tables.py) and the local dispatcher (cli.py) of        *)
(* src/src/blazel.                                                         *)
(*                                                                         *)
(* Representation of Python values:                                        *)
(*   - str | None      : a TLA+ string, None is the string "None"          *)
(*   - bool | None     : one of the strings "None", "True", "False"        *)
(*   - int | None      : an integer, None is NoneInt (= -1)                *)
(*   - an ordered dict : a sequence of <<key, value>> pairs, unique keys   *)
(*   - an opaque dict  : a token (a string) naming the value               *)
(*   - tasks.py reads a table's policy as `table.options` and its name as  *)
(*     `table.table_name`; base.py declares them `meta` and `name`.  The   *)
(*     model reads them as the same attributes.                            *)
(***************************************************************************)
EXTENDS Integers, Sequences, FiniteSets, TLC

VARIABLES
    pc,           \* position of the modelled program
    warehouse,    \* the in-memory catalog (BaseWarehouse / SnowflakeWarehouse)
    document,     \* the catalog document (warehouse_serialized)
    original,     \* the warehouse a document was dumped from
    schema_names, \* filter input: NoneList or List(names)
    table_names,  \* filter input: NoneList or List(names)
    stratify,     \* filter input
    result,       \* the list filter returned
    plan_table,   \* planner input: <<schema name, table>>
    task_options, \* planner / dispatcher input: TaskOptions or Null (None)
    job,          \* the job from_table returned
    uuid_count,   \* number of uuid4() values drawn so far
    stop_on_error,      \* cli_run --stop-on-error
    schedule,           \* Schedule.schedule, the list of jobs
    job_i,              \* position of cli_run in the schedule
    task_i,             \* position of cli_run in job.extract
    log,                \* start / return / raise events of the tasks
    stmts,              \* load_from_stage: the dict load_stmt() returned
    stmt_i,             \* load_from_stage: position in that dict
    executed,           \* statements executed on the cursor
    extract_time_table, \* Watermark Store: table_uri -> item
    before,             \* Watermark Store when the current load started
    bucket,             \* keys of the objects in the staging bucket
    raised,             \* the last error raised by a task
    wire_task,          \* a task object
    wire,               \* the dict as_dict returned, as it arrives at from_dict
    decoded,            \* what TaskFactory.from_dict returned or raised
    task_table,         \* Task Store: the rows of the task table
    job_table,          \* Task Store: the rows of the job table
    task_writes,        \* number of wire_task.to_dynamodb() calls so far
    job_writes,         \* number of job.to_dynamodb() calls so far
    extract_data,       \* get_data_bytes: the rows handed to the encoder
    max_file_size,      \* get_data_bytes: its max_file_size argument
    csv_batch_size,     \* get_data_bytes: its csv_batch_size argument
    read,               \* get_data_bytes: number of rows taken from the data
    fb,                 \* get_data_bytes: the GzipFileBuffer
    yielded,            \* get_data_bytes: the DataBytes yielded so far
    stage_bucket,       \* staging bucket: its objects in key order
    stage_before,       \* staging bucket when the operation began
    stage_table,        \* <<schema name, table name>> of the table at work
    listed,             \* clean_stage: objects of the listing not yet seen
    counter,            \* clean_stage: its counter
    delete_requests,    \* clean_stage: the delete_objects requests sent
    clean_result,       \* clean_stage: the N of its message
    workers,            \* the extract tasks at work: task_number -> progress
    attempt,            \* rerun: number of the run of the job, from 1
    current,            \* rerun: index in job.extract of the task at work
    shared,             \* what jobs share: warehouse tables, bucket, watermarks
    shared_before,      \* shared before the jobs started
    procs,              \* the jobs at work: their table and next step
    time_range,         \* the TimeRange built by TimeRange.from_task
    store_reads,        \* number of reads of the watermark store by from_task
    last_put,           \* table_uri -> value handed to the last set_latest_timestamp
    puts,               \* number of set_latest_timestamp calls so far
    batch_call,         \* the last get_batch_n / get_batch_date call and its result
    environ             \* os.environ: the variables the tasks have set

catalogVars == <<warehouse, document, original>>
filterVars == <<schema_names, table_names, stratify, result>>
planVars == <<plan_table, task_options, job, uuid_count>>
runVars == <<stop_on_error, schedule, job_i, task_i, log, stmts, stmt_i, executed,
             extract_time_table, before, bucket, raised>>
wireVars == <<wire_task, wire, decoded>>
storeVars == <<task_table, job_table, task_writes, job_writes>>
encVars == <<extract_data, max_file_size, csv_batch_size, read, fb, yielded>>
cleanVars == <<stage_bucket, stage_before, stage_table, listed, counter,
               delete_requests, clean_result>>
extractVars == <<workers, attempt, current>>
jobsVars == <<shared, shared_before, procs>>
rangeVars == <<time_range, store_reads, last_put, puts, batch_call>>
envVars == <<environ>>
tailVars == <<encVars, cleanVars, extractVars, jobsVars, rangeVars, envVars>>
extVars == <<wireVars, storeVars, tailVars>>
vars == <<pc, catalogVars, filterVars, planVars, runVars, extVars>>

None == "None"
NoneInt == 0 - 1
Null == [null |-> TRUE]

\* Python truthiness of a str | None
Truthy(s) == s # None /\ s # ""

\* Python truthiness of a bool | None
TruthyBool(b) == b = "True"

(***************************************************************************)
(* Ordered dicts                                                           *)
(***************************************************************************)
EmptyDict == <<>>

HasKey(d, k) == \E i \in 1..Len(d) : d[i][1] = k

DictGet(d, k) == d[CHOOSE i \in 1..Len(d) : d[i][1] = k][2]

Keys(d) == [i \in 1..Len(d) |-> d[i][1]]

Values(d) == [i \in 1..Len(d) |-> d[i][2]]

\* d[k] = v : replaces the value in place, or appends a new key
DictSet(d, k, v) ==
    IF HasKey(d, k)
    THEN [i \in 1..Len(d) |-> IF d[i][1] = k THEN <<k, v>> ELSE d[i]]
    ELSE Append(d, <<k, v>>)

SelectSeqIdx(s, Test(_)) ==
    LET F[i \in 0..Len(s)] ==
            IF i = 0 THEN <<>>
            ELSE IF Test(i) THEN Append(F[i-1], s[i]) ELSE F[i-1]
    IN F[Len(s)]

Range(s) == {s[i] : i \in 1..Len(s)}

(***************************************************************************)
(* Column (base.py)                                                        *)
(***************************************************************************)
Column(name, dtype, description) ==
    [name |-> name, dtype |-> dtype, description |-> description]

\* Column.serialized: the dtype string when only dtype is non-default,
\* otherwise the mapping of the non-default fields without the name
Column_serialized(column) ==
    IF column.description = None
    THEN [str |-> TRUE, dtype |-> column.dtype, description |-> None]
    ELSE [str |-> FALSE, dtype |-> column.dtype, description |-> column.description]

Column_from_serialized(column_name, column_serialized) ==
    IF column_serialized.str
    THEN Column(column_name, column_serialized.dtype, None)
    ELSE Column(column_name, column_serialized.dtype, column_serialized.description)

(***************************************************************************)
(* TableMeta (base.py)                                                     *)
(***************************************************************************)
MetaFields == {"ignore", "batches", "total_rows", "primary_key", "timestamp_key",
               "look_back_days", "timestamp_field", "truncate"}

DefaultMeta ==
    [ignore |-> FALSE, batches |-> 1, total_rows |-> 0, primary_key |-> None,
     timestamp_key |-> None, look_back_days |-> NoneInt, timestamp_field |-> None,
     truncate |-> None]

\* BaseOptions.as_dict: the fields whose value differs from the default
TableMeta_as_dict(meta) ==
    [f \in {g \in MetaFields : meta[g] # DefaultMeta[g]} |-> meta[f]]

\* TableMeta(**meta)
TableMeta(meta_dict) ==
    [f \in MetaFields |-> IF f \in DOMAIN meta_dict THEN meta_dict[f] ELSE DefaultMeta[f]]

NoMeta == [f \in {} |-> None]

\* dict.get(key) of a meta mapping, None when the key is absent
MetaGet(meta_dict, key) ==
    IF key \in DOMAIN meta_dict THEN meta_dict[key] ELSE None

(***************************************************************************)
(* Tables, schemas, warehouses (base.py, tables.py)                        *)
(***************************************************************************)
Table(cls, name, description, meta, columns) ==
    [cls |-> cls, name |-> name, description |-> description, meta |-> meta,
     columns |-> columns]

Schema(name, description, meta, tables) ==
    [name |-> name, description |-> description, meta |-> meta, tables |-> tables]

Warehouse(cls, schemas) == [cls |-> cls, schemas |-> schemas]

\* create_dict(**kwargs): drops the entries whose value is falsy
create_dict(d) == SelectSeqIdx(d, LAMBDA i : d[i][3])

\* BaseTable.serialized
BaseTable_serialized(table) ==
    LET entries ==
            << <<"_description", table.description, Truthy(table.description)>>,
               <<"_meta", TableMeta_as_dict(table.meta),
                 DOMAIN TableMeta_as_dict(table.meta) # {}>> >>
            \o [i \in 1..Len(table.columns) |->
                   <<table.columns[i].name, Column_serialized(table.columns[i]),
                     table.columns[i].dtype # "">>]
        kept == create_dict(entries)
    IN [i \in 1..Len(kept) |-> <<kept[i][1], kept[i][2]>>]

\* BaseWarehouse.table_class: always BaseTable
BaseWarehouse_table_class(table_serialized) == "BaseTable"

\* SnowflakeWarehouse.table_class
SnowflakeWarehouse_table_class(table_serialized) ==
    LET options == IF HasKey(table_serialized, "meta")
                      /\ DOMAIN DictGet(table_serialized, "meta") # {}
                   THEN DictGet(table_serialized, "meta")
                   ELSE NoMeta
        has_upsert_key == \/ MetaGet(options, "primary_key") # None
                          \/ MetaGet(options, "timestamp_key") # None
    IN IF has_upsert_key THEN "SnowflakeTableUpsert" ELSE "SnowflakeTable"

table_class(warehouse_cls, table_serialized) ==
    IF warehouse_cls = "SnowflakeWarehouse"
    THEN SnowflakeWarehouse_table_class(table_serialized)
    ELSE BaseWarehouse_table_class(table_serialized)

\* BaseTable.from_serialized
BaseTable_from_serialized(cls, table_name, table_serialized) ==
    LET meta == IF HasKey(table_serialized, "meta")
                   /\ DOMAIN DictGet(table_serialized, "meta") # {}
                THEN DictGet(table_serialized, "meta")
                ELSE IF HasKey(table_serialized, "_meta")
                        /\ DOMAIN DictGet(table_serialized, "_meta") # {}
                THEN DictGet(table_serialized, "_meta")
                ELSE NoMeta
        description == IF HasKey(table_serialized, "_description")
                       THEN DictGet(table_serialized, "_description")
                       ELSE None
        columns_serialized ==
            IF HasKey(table_serialized, "columns")
            THEN DictGet(table_serialized, "columns")
            ELSE SelectSeqIdx(table_serialized,
                     LAMBDA i : table_serialized[i][1] \notin {"_description", "_meta"})
    IN Table(cls, table_name, description, TableMeta(meta),
             [i \in 1..Len(columns_serialized) |->
                 Column_from_serialized(columns_serialized[i][1], columns_serialized[i][2])])

\* BaseSchema.serialized
BaseSchema_serialized(schema) ==
    (IF Truthy(schema.description) THEN << <<"_description", schema.description>> >> ELSE <<>>)
    \o (IF Truthy(schema.meta) THEN << <<"_meta", schema.meta>> >> ELSE <<>>)
    \o [i \in 1..Len(schema.tables) |->
           <<schema.tables[i].name, BaseTable_serialized(schema.tables[i])>>]

\* BaseSchema.from_serialized: the loop over schema_serialized.items()
BaseSchema_from_serialized(warehouse_cls, schema_name, schema_serialized) ==
    LET F[i \in 0..Len(schema_serialized)] ==
            IF i = 0 THEN Schema(schema_name, None, None, <<>>)
            ELSE LET schema == F[i-1]
                     table_name == schema_serialized[i][1]
                     table_serialized == schema_serialized[i][2]
                 IN IF table_name = "_description"
                    THEN [schema EXCEPT !.description = table_serialized]
                    ELSE IF table_name = "_meta"
                    THEN [schema EXCEPT !.description = table_serialized]
                    ELSE [schema EXCEPT !.tables =
                             Append(@, BaseTable_from_serialized(
                                          table_class(warehouse_cls, table_serialized),
                                          table_name, table_serialized))]
    IN F[Len(schema_serialized)]

\* BaseWarehouse.serialized
BaseWarehouse_serialized(w) ==
    [i \in 1..Len(w.schemas) |-> <<w.schemas[i].name, BaseSchema_serialized(w.schemas[i])>>]

\* BaseWarehouse.from_serialized
BaseWarehouse_from_serialized(cls, warehouse_serialized) ==
    Warehouse(cls,
        [i \in 1..Len(warehouse_serialized) |->
            BaseSchema_from_serialized(cls, warehouse_serialized[i][1],
                                       warehouse_serialized[i][2])])

(***************************************************************************)
(* Load statements (tables.py)                                             *)
(***************************************************************************)
default_stage_suffix == "_stage"

\* BaseWarehouse.get_database_name with APP_ENV=dev and no override
database_name == "sources_dev"

\* BaseTable.table_uri, with an optional suffix kept apart
table_uri(schema_name, table, suffix) ==
    [database |-> database_name, schema |-> schema_name, table |-> table.name,
     suffix |-> suffix]

\* str.split(';') on the key strings of the model
split_semicolon(s) ==
    CASE s = "column0;column1" -> <<"column0", "column1">>
      [] s = "column1;column0" -> <<"column1", "column0">>
      [] OTHER -> <<s>>

Ok(value) == [ok |-> TRUE, value |-> value]
Raise(error) == [ok |-> FALSE, error |-> error]

truncate_table_stmt(schema_name, table) ==
    [cmd |-> "TRUNCATE", table |-> table_uri(schema_name, table, "")]

\* copy_table_stmt that copies into the target whatever the suffix
copy_table_stmt_into_target(schema_name, table, suffix) ==
    [cmd |-> "COPY", table |-> table_uri(schema_name, table, ""),
     columns |-> [i \in 1..Len(table.columns) |-> table.columns[i].name],
     from |-> <<schema_name, table.name>>]

copy_table_stmt(schema_name, table, suffix) ==
    [cmd |-> "COPY", table |-> table_uri(schema_name, table, suffix),
     columns |-> [i \in 1..Len(table.columns) |-> table.columns[i].name],
     from |-> <<schema_name, table.name>>]

update_load_date_stmt(schema_name, table, suffix) ==
    [cmd |-> "UPDATE", table |-> table_uri(schema_name, table, suffix)]

drop_staging_table_stmt(schema_name, table) ==
    [cmd |-> "DROP", table |-> table_uri(schema_name, table, default_stage_suffix)]

create_staging_table_stmt(schema_name, table) ==
    [cmd |-> "CREATE", table |-> table_uri(schema_name, table, default_stage_suffix),
     like |-> table_uri(schema_name, table, "")]

delete_by_primary_key(schema_name, table) ==
    [cmd |-> "DELETE", table |-> table_uri(schema_name, table, ""),
     using |-> table_uri(schema_name, table, default_stage_suffix),
     match |-> "primary_key",
     where |-> split_semicolon(table.meta.primary_key)]

delete_by_datetime_range(schema_name, table) ==
    [cmd |-> "DELETE", table |-> table_uri(schema_name, table, ""),
     using |-> table_uri(schema_name, table, default_stage_suffix),
     match |-> "datetime_range",
     where |-> <<table.meta.timestamp_key>>]

\* delete_from_table_stmt that tries timestamp_key before primary_key
delete_from_table_stmt_timestamp_first(schema_name, table) ==
    IF Truthy(table.meta.timestamp_key)
    THEN Ok(delete_by_datetime_range(schema_name, table))
    ELSE IF Truthy(table.meta.primary_key)
    THEN Ok(delete_by_primary_key(schema_name, table))
    ELSE Raise("ValueError")

\* SnowflakeTableUpsert.delete_from_table_stmt
delete_from_table_stmt(schema_name, table) ==
    IF Truthy(table.meta.primary_key)
    THEN Ok(delete_by_primary_key(schema_name, table))
    ELSE IF Truthy(table.meta.timestamp_key)
    THEN Ok(delete_by_datetime_range(schema_name, table))
    ELSE Raise("ValueError")

insert_into_table_stmt(schema_name, table) ==
    [cmd |-> "INSERT", table |-> table_uri(schema_name, table, ""),
     select |-> table_uri(schema_name, table, default_stage_suffix)]

\* a dict literal {k1: v1, k2: v2, ...}: later equal keys replace earlier ones
DictLiteral(entries) ==
    LET F[i \in 0..Len(entries)] ==
            IF i = 0 THEN EmptyDict
            ELSE DictSet(F[i-1], entries[i][1], entries[i][2])
    IN F[Len(entries)]

\* SnowflakeTable.load_stmt (overwrite)
SnowflakeTable_load_stmt(schema_name, table) ==
    Ok(DictLiteral(<<
        <<"TRUNCATE", truncate_table_stmt(schema_name, table)>>,
        <<"COPY", copy_table_stmt(schema_name, table, "")>>,
        <<"UPDATE", update_load_date_stmt(schema_name, table, "")>> >>))

\* SnowflakeTableUpsert.load_stmt with INSERT ahead of DELETE
SnowflakeTableUpsert_load_stmt_insert_first(schema_name, table) ==
    IF TruthyBool(table.meta.truncate)
    THEN SnowflakeTable_load_stmt(schema_name, table)
    ELSE LET delete == delete_from_table_stmt(schema_name, table)
         IN IF ~delete.ok THEN delete
            ELSE Ok(DictLiteral(<<
                <<"DROP", drop_staging_table_stmt(schema_name, table)>>,
                <<"CREATE", create_staging_table_stmt(schema_name, table)>>,
                <<"COPY", copy_table_stmt(schema_name, table, default_stage_suffix)>>,
                <<"UPDATE", update_load_date_stmt(schema_name, table, default_stage_suffix)>>,
                <<"INSERT", insert_into_table_stmt(schema_name, table)>>,
                <<"DELETE", delete.value>> >>))

\* SnowflakeTableUpsert.load_stmt
SnowflakeTableUpsert_load_stmt(schema_name, table) ==
    IF TruthyBool(table.meta.truncate)
    THEN SnowflakeTable_load_stmt(schema_name, table)
    ELSE LET delete == delete_from_table_stmt(schema_name, table)
         IN IF ~delete.ok THEN delete
            ELSE Ok(DictLiteral(<<
                <<"DROP", drop_staging_table_stmt(schema_name, table)>>,
                <<"CREATE", create_staging_table_stmt(schema_name, table)>>,
                <<"COPY", copy_table_stmt(schema_name, table, default_stage_suffix)>>,
                <<"UPDATE", update_load_date_stmt(schema_name, table, default_stage_suffix)>>,
                <<"DELETE", delete.value>>,
                <<"INSERT", insert_into_table_stmt(schema_name, table)>> >>))

\* table.load_stmt(), dispatched on the class of the table
load_stmt(schema_name, table) ==
    IF table.cls = "SnowflakeTableUpsert"
    THEN SnowflakeTableUpsert_load_stmt(schema_name, table)
    ELSE SnowflakeTable_load_stmt(schema_name, table)


(***************************************************************************)
(* filter (base.py)                                                        *)
(***************************************************************************)
\* a list[str] | None argument: only membership is used
NoneList == [none |-> TRUE, names |-> {}]
List(names) == [none |-> FALSE, names |-> names]

\* str.lower() on the names of the model
lower(s) ==
    CASE s = "SCHEMA0" -> "schema0"
      [] s = "SCHEMA1" -> "schema1"
      [] s = "TABLE0" -> "table0"
      [] s = "TABLE1" -> "table1"
      [] s = "Table1" -> "table1"
      [] s = "Table2" -> "table2"
      [] OTHER -> s

lower_all(names) == IF names.none THEN names ELSE List({lower(n) : n \in names.names})

\* filter_tables that drops ignored tables also when they are named
filter_tables_ignore_always(schema, names) ==
    LET lowered == lower_all(names)
    IN SelectSeqIdx(schema.tables,
           LAMBDA i : /\ ~schema.tables[i].meta.ignore
                      /\ lowered.none \/ schema.tables[i].name \in lowered.names)

\* BaseSchema.filter_tables
filter_tables(schema, names) ==
    LET lowered == lower_all(names)
    IN SelectSeqIdx(schema.tables,
           LAMBDA i : IF lowered.none
                      THEN ~schema.tables[i].meta.ignore
                      ELSE schema.tables[i].name \in lowered.names)

\* BaseWarehouse.filter_schemas
filter_schemas(w, names) ==
    LET lowered == lower_all(names)
    IN SelectSeqIdx(w.schemas,
           LAMBDA i : lowered.none \/ w.schemas[i].name \in lowered.names)

DictDel(d, k) == SelectSeqIdx(d, LAMBDA i : d[i][1] # k)

\* filter_pass that takes the last table of a schema (pop() for pop(0))
filter_pass_pop_last(dict, result_, stratify_) ==
    LET keys == Keys(dict)
        F[i \in 0..Len(keys)] ==
            IF i = 0 THEN <<dict, result_>>
            ELSE LET d == F[i-1][1]
                     r == F[i-1][2]
                     schema_name == keys[i]
                     tables == DictGet(d, schema_name)
                 IN IF stratify_
                    THEN LET r1 == IF tables # <<>> THEN Append(r, tables[Len(tables)]) ELSE r
                             t1 == IF tables # <<>> THEN SubSeq(tables, 1, Len(tables) - 1)
                                   ELSE tables
                         IN IF t1 = <<>>
                            THEN <<DictDel(d, schema_name), r1>>
                            ELSE <<DictSet(d, schema_name, t1), r1>>
                    ELSE <<DictDel(d, schema_name), r \o tables>>
    IN F[Len(keys)]

\* one pass of `for schema_name in list(warehouse.keys())` of BaseWarehouse.filter;
\* state = <<warehouse dict, result>>
filter_pass(dict, result_, stratify_) ==
    LET keys == Keys(dict)
        F[i \in 0..Len(keys)] ==
            IF i = 0 THEN <<dict, result_>>
            ELSE LET d == F[i-1][1]
                     r == F[i-1][2]
                     schema_name == keys[i]
                     tables == DictGet(d, schema_name)
                 IN IF stratify_
                    THEN LET r1 == IF tables # <<>> THEN Append(r, Head(tables)) ELSE r
                             t1 == IF tables # <<>> THEN Tail(tables) ELSE tables
                         IN IF t1 = <<>>
                            THEN <<DictDel(d, schema_name), r1>>
                            ELSE <<DictSet(d, schema_name, t1), r1>>
                    ELSE <<DictDel(d, schema_name), r \o tables>>
    IN F[Len(keys)]

RECURSIVE filter_loop(_, _, _)
\* `while warehouse:` of BaseWarehouse.filter
filter_loop(dict, result_, stratify_) ==
    IF dict = <<>> THEN result_
    ELSE LET after == filter_pass(dict, result_, stratify_)
         IN filter_loop(after[1], after[2], stratify_)

\* BaseWarehouse.filter; an entry of the result is <<schema name, table>>
filter(w, schema_names_, table_names_, stratify_) ==
    LET schemas == filter_schemas(w, schema_names_)
        dict == [i \in 1..Len(schemas) |->
                    <<schemas[i].name,
                      LET tables == filter_tables(schemas[i], table_names_)
                      IN [j \in 1..Len(tables) |-> <<schemas[i].name, tables[j]>>]>>]
    IN filter_loop(dict, <<>>, stratify_)

(***************************************************************************)
(* Tasks and the job planner (tasks.py)                                    *)
(***************************************************************************)
Max(a, b) == IF a >= b THEN a ELSE b

\* Python truthiness of an int | None
TruthyInt(n) == n # NoneInt /\ n # 0

\* TaskOptions(): dates are day numbers, None is NoneInt
DefaultTaskOptions ==
    [start |-> NoneInt, end |-> NoneInt, batches |-> 1, total_rows |-> 0,
     limit |-> 0, test_error |-> FALSE, fail_on_error |-> "false"]

\* TableTask.__post_init__ lower-cases the names
TableTask(task_type, task_id, job_id, database, schema_name, table_name) ==
    [task_type |-> task_type, task_id |-> task_id, job_id |-> job_id,
     database_name |-> lower(database), schema_name |-> lower(schema_name),
     table_name |-> lower(table_name)]

CleanTask(task_id, job_id, database, schema_name, table_name) ==
    TableTask("CleanTask", task_id, job_id, database, schema_name, table_name)

ExtractTask(task_id, job_id, database, schema_name, table_name, task_number, options) ==
    TableTask("ExtractTask", task_id, job_id, database, schema_name, table_name)
        @@ [task_number |-> task_number, options |-> options]

LoadTask(task_id, job_id, database, schema_name, table_name, truncate) ==
    TableTask("LoadTask", task_id, job_id, database, schema_name, table_name)
        @@ [truncate |-> truncate]

\* the options of a job after the look-back and batches rules of from_table
from_table_options(table_, task_options_, today) ==
    LET copied == IF task_options_ = Null THEN DefaultTaskOptions ELSE task_options_
        look_back == copied.start = NoneInt /\ TruthyInt(table_.meta.look_back_days)
        options1 ==
            IF look_back
            THEN [copied EXCEPT
                     !.batches = IF Truthy(table_.meta.timestamp_key)
                                 THEN table_.meta.look_back_days ELSE 1,
                     !.start = today - table_.meta.look_back_days,
                     !.end = today]
            ELSE copied
    IN [options1 EXCEPT !.batches = Max(@, table_.meta.batches),
                        !.total_rows = table_.meta.total_rows]

\* from_table without the max() with the batches of the table
from_table_no_max(schema_name, table_, task_options_, uuid, today) ==
    LET job_id == uuid + 1
        copied == IF task_options_ = Null THEN DefaultTaskOptions ELSE task_options_
        options == [from_table_options(table_, task_options_, today)
                       EXCEPT !.batches = copied.batches]
        n == Max(options.batches, 0)
    IN [job_id |-> job_id,
        clean |-> CleanTask(uuid + 2, job_id, database_name, schema_name, table_.name),
        extract |-> [k \in 1..n |->
            ExtractTask(uuid + 2 + k, job_id, database_name, schema_name, table_.name,
                        k - 1, options)],
        load |-> LoadTask(uuid + 3 + n, job_id, database_name, schema_name, table_.name,
                          table_.meta.truncate)]

\* ExtractLoadJob.from_table; uuid4() values are uuid + 1, uuid + 2, ...
from_table(schema_name, table_, task_options_, uuid, today) ==
    LET job_id == uuid + 1
        options == from_table_options(table_, task_options_, today)
        n == Max(options.batches, 0)
    IN [job_id |-> job_id,
        clean |-> CleanTask(uuid + 2, job_id, database_name, schema_name, table_.name),
        extract |-> [k \in 1..n |->
            ExtractTask(uuid + 2 + k, job_id, database_name, schema_name, table_.name,
                        k - 1, options)],
        load |-> LoadTask(uuid + 3 + n, job_id, database_name, schema_name, table_.name,
                          table_.meta.truncate)]

\* number of uuid4() values one job draws
UuidsOf(job_) == 3 + Len(job_.extract)

\* the caller's options object after a from_table that applies its rules to
\* the object it was handed
from_table_task_options_in_place(table_, task_options_, today) ==
    IF task_options_ = Null THEN Null ELSE from_table_options(table_, task_options_, today)

\* the caller's options object after from_table: the rules are applied to
\* copy.deepcopy(task_options)
from_table_task_options(table_, task_options_, today) == task_options_

\* Schedule.from_tables over a filter result; every from_table is handed the
\* one options object of the caller; returns <<schedule, uuid count, the
\* options object after the loop>>
from_tables(tables, options, uuid, today) ==
    LET F[i \in 0..Len(tables)] ==
            IF i = 0 THEN <<<<>>, uuid, options>>
            ELSE IF tables[i][2].meta.ignore THEN F[i-1]
            ELSE LET job_ == from_table(tables[i][1], tables[i][2], F[i-1][3], F[i-1][2],
                                        today)
                 IN <<Append(F[i-1][1], job_), F[i-1][2] + UuidsOf(job_),
                      from_table_task_options(tables[i][2], F[i-1][3], today)>>
    IN F[Len(tables)]

(***************************************************************************)
(* Task execution and the local dispatcher (tasks.py, tables.py, cli.py)   *)
(***************************************************************************)
\* TableTask.table: warehouse[schema_name][table_name], as a position in the
\* catalog, or KeyError
TableTask_table(w, task) ==
    LET found == UNION { { <<i, j>> : j \in { k \in 1..Len(w.schemas[i].tables) :
                                        w.schemas[i].tables[k].name = task.table_name } } :
                         i \in { h \in 1..Len(w.schemas) :
                                    w.schemas[h].name = task.schema_name } }
    IN IF found = {} THEN Raise("KeyError") ELSE Ok(CHOOSE at \in found : TRUE)

\* SnowflakeTable.get_key: the object key of file `file` of batch `batch`
get_key(schema_name, table_name, batch, file) ==
    [schema |-> schema_name, table |-> table_name, batch |-> batch, file |-> file]

\* SnowflakeTable.clean_stage: the bucket without the objects under <schema>/<table>/
clean_stage(bucket_, schema_name, table_name) ==
    {key \in bucket_ : ~(key.schema = schema_name /\ key.table = table_name)}

\* the watermark query of load_from_stage
select_max_stmt(schema_name, table) ==
    [cmd |-> "SELECT", table |-> table_uri(schema_name, table, ""),
     max |-> table.meta.timestamp_field]

\* datetime.strftime(default_timestamp_format) on the datetimes of the model
strftime(latest_timestamp) ==
    CASE latest_timestamp = "datetime(2024, 1, 2)" -> "2024-01-02T00:00:00"
      [] latest_timestamp = "datetime(2024, 1, 3)" -> "2024-01-03T00:00:00"
      [] OTHER -> latest_timestamp

\* set_latest_timestamp that keeps the item the store already has
set_latest_timestamp_if_absent(store, schema_name, table, latest_timestamp) ==
    [k \in DOMAIN store \cup {table_uri(schema_name, table, "")} |->
        IF k \in DOMAIN store THEN store[k]
        ELSE [field |-> table.meta.timestamp_field, value |-> latest_timestamp]]

\* SnowflakeTable.set_latest_timestamp: put_item replaces the item of the table
set_latest_timestamp(store, schema_name, table, latest_timestamp) ==
    [k \in DOMAIN store \cup {table_uri(schema_name, table, "")} |->
        IF k = table_uri(schema_name, table, "")
        THEN [field |-> table.meta.timestamp_field, value |-> strftime(latest_timestamp)]
        ELSE store[k]]

\* load_from_stage: the for loop over load_stmt().items() is exhausted
loop_finished_early(stmts_, i) == i >= Len(stmts_)

loop_finished(stmts_, i) == i > Len(stmts_)

\* cli_run: what follows job.clean
after_clean(job_) ==
    IF Len(job_.extract) >= 1 THEN <<"extract", 1>> ELSE <<"load", 0>>

\* cli_run that goes to the load after the first extract
after_extract_first_only(job_, i) == <<"load", 0>>

\* cli_run: what follows job.extract[i]
after_extract(job_, i) ==
    IF i < Len(job_.extract) THEN <<"extract", i + 1>> ELSE <<"load", 0>>

\* cli_run: what follows the last task of job i
next_job(schedule_, i) ==
    IF i < Len(schedule_) THEN <<"clean", i + 1>> ELSE <<"done", i>>

\* cli_run: except ProgrammingError around job.load
except_ProgrammingError(schedule_, i, stop_on_error_) ==
    IF stop_on_error_ THEN <<"raised", i>> ELSE next_job(schedule_, i)

\* get_filtered_tables without a table prefix
get_filtered_tables(w, schema_names_, table_names_) ==
    filter(w, schema_names_, table_names_, FALSE)

Event(task, event) ==
    [job_id |-> task.job_id, task_id |-> task.task_id, task_type |-> task.task_type,
     event |-> event]

(***************************************************************************)
(* Catalog: dump and load of the catalog document                          *)
(***************************************************************************)
MaxCatalogTables == 2

TableNames == <<"table0", "table1", "table2", "table3">>
SchemaNames == <<"schema0", "schema1", "schema2">>

column0 == Column("column0", "varchar", None)
column1 == Column("column1", "number", "This is a number")

\* policies a catalog declares
TableMetas ==
    { DefaultMeta,
      [DefaultMeta EXCEPT !.primary_key = "column0"],
      [DefaultMeta EXCEPT !.timestamp_key = "column1", !.truncate = "True"] }

\* tables built in memory (add_table): the class follows the policy
MemoryTables(cls_of(_)) ==
    { Table(cls_of(meta), "", description, meta, columns) :
        description \in {None}, meta \in TableMetas,
        columns \in {<<column0, column1>>} }
    \cup { Table(cls_of(DefaultMeta), "", "table description", DefaultMeta,
                 <<column1, column0>>) }

SnowflakeClassOf(meta) ==
    IF meta.primary_key # None \/ meta.timestamp_key # None
    THEN "SnowflakeTableUpsert" ELSE "SnowflakeTable"

BaseClassOf(meta) == "BaseTable"

\* sequences of length 0..n over S
SeqsUpTo(S, n) == UNION {[1..k -> S] : k \in 0..n}

Named(objects, names) ==
    [i \in 1..Len(objects) |-> [objects[i] EXCEPT !.name = names[i]]]

MemorySchemas(cls_of(_)) ==
    { Schema("", description, meta, Named(tables, TableNames)) :
        description \in {None, "schema description"},
        meta \in {None, "schema meta"},
        tables \in SeqsUpTo(MemoryTables(cls_of), MaxCatalogTables) }

\* a second schema, for the catalogs with more than one schema
SecondSchema(cls_of(_)) ==
    Schema("", "schema description", None,
           Named(<<Table(cls_of(DefaultMeta), "", None, DefaultMeta, <<column0>>)>>,
                 TableNames))

SchemaLists(cls_of(_)) ==
    { <<schema>> : schema \in MemorySchemas(cls_of) }
    \cup { <<schema, SecondSchema(cls_of)>> : schema \in MemorySchemas(cls_of) }

MemoryWarehouses ==
    { Warehouse("BaseWarehouse", Named(schemas, SchemaNames)) :
        schemas \in SchemaLists(BaseClassOf) }
    \cup
    { Warehouse("SnowflakeWarehouse", Named(schemas, SchemaNames)) :
        schemas \in SchemaLists(SnowflakeClassOf) }

\* hand-written table documents: the policy under `meta` with `columns`,
\* or under `_meta` with inline columns
columns_serialized0 ==
    << <<"column0", Column_serialized(column0)>>, <<"column1", Column_serialized(column1)>> >>

TableDocuments ==
    { << <<"columns", columns_serialized0>> >>,
      << <<"columns", columns_serialized0>>, <<"meta", [primary_key |-> "column0"]>> >>,
      << <<"columns", columns_serialized0>>, <<"meta", [timestamp_key |-> "column1"]>> >>,
      << <<"columns", columns_serialized0>>,
         <<"meta", [primary_key |-> "column0", truncate |-> "True"]>> >>,
      << <<"_meta", [primary_key |-> "column0"]>> >> \o columns_serialized0,
      << <<"_meta", [timestamp_key |-> "column1"]>> >> \o columns_serialized0,
      << <<"_description", "table description">> >> \o columns_serialized0 }

Documents ==
    { << <<"schema0", [i \in 1..Len(tables) |-> <<TableNames[i], tables[i]>>]>> >> :
        tables \in SeqsUpTo(TableDocuments, MaxCatalogTables) }

FilterIdle ==
    /\ schema_names = NoneList
    /\ table_names = NoneList
    /\ stratify = FALSE
    /\ result = <<>>

PlanIdle ==
    /\ plan_table = Null
    /\ task_options = Null
    /\ job = Null
    /\ uuid_count = 0

RunIdle ==
    /\ stop_on_error = FALSE
    /\ schedule = <<>>
    /\ job_i = 0
    /\ task_i = 0
    /\ log = <<>>
    /\ stmts = <<>>
    /\ stmt_i = 0
    /\ executed = <<>>
    /\ extract_time_table = <<>>
    /\ before = <<>>
    /\ bucket = {}
    /\ raised = None

WireIdle ==
    /\ wire_task = Null
    /\ wire = Null
    /\ decoded = Null

StoreIdle ==
    /\ task_table = <<>>
    /\ job_table = <<>>
    /\ task_writes = 0
    /\ job_writes = 0

EncIdle ==
    /\ extract_data = <<>>
    /\ max_file_size = 0
    /\ csv_batch_size = 0
    /\ read = 0
    /\ fb = Null
    /\ yielded = <<>>

CleanIdle ==
    /\ stage_bucket = <<>>
    /\ stage_before = <<>>
    /\ stage_table = <<>>
    /\ listed = <<>>
    /\ counter = 0
    /\ delete_requests = <<>>
    /\ clean_result = NoneInt

ExtractIdle ==
    /\ workers = <<>>
    /\ attempt = 0
    /\ current = 0

RangeIdle ==
    /\ time_range = Null
    /\ store_reads = 0
    /\ last_put = <<>>
    /\ puts = 0
    /\ batch_call = Null

EnvIdle == environ = <<>>

JobsIdle ==
    /\ shared = Null
    /\ shared_before = Null
    /\ procs = <<>>

TailIdle ==
    /\ EncIdle
    /\ CleanIdle
    /\ ExtractIdle
    /\ JobsIdle
    /\ RangeIdle
    /\ EnvIdle

ExtIdle ==
    /\ WireIdle
    /\ StoreIdle
    /\ TailIdle

CatalogInit ==
    /\ ExtIdle
    /\ FilterIdle
    /\ PlanIdle
    /\ RunIdle
    /\ original = Null
    /\ \/ /\ pc = "memory"
          /\ warehouse \in MemoryWarehouses
          /\ document = Null
       \/ /\ pc = "document"
          /\ warehouse = Null
          /\ document \in Documents

\* warehouse.serialized
Dump ==
    /\ pc \in {"memory", "loaded"}
    /\ document' = BaseWarehouse_serialized(warehouse)
    /\ original' = warehouse
    /\ pc' = "dumped"
    /\ UNCHANGED <<extVars, warehouse, filterVars, planVars, runVars>>

\* cls.from_serialized(document) of a hand-written document
Load ==
    /\ pc = "document"
    /\ \E cls \in {"BaseWarehouse", "SnowflakeWarehouse"} :
          warehouse' = BaseWarehouse_from_serialized(cls, document)
    /\ pc' = "loaded"
    /\ UNCHANGED <<extVars, document, original, filterVars, planVars, runVars>>

\* cls.from_serialized(document) of the document dumped by the same class
Reload ==
    /\ pc = "dumped"
    /\ warehouse' = BaseWarehouse_from_serialized(original.cls, document)
    /\ pc' = "reloaded"
    /\ UNCHANGED <<extVars, document, original, filterVars, planVars, runVars>>

CatalogNext == Dump \/ Load \/ Reload

SpecCatalog == CatalogInit /\ [][CatalogNext]_vars

\* every table of the loaded warehouse, with the name of its schema
AllTables(w) ==
    UNION { { <<w.schemas[i].name, w.schemas[i].tables[j]>> :
                j \in 1..Len(w.schemas[i].tables) } : i \in 1..Len(w.schemas) }

overwrite_cmds == <<"TRUNCATE", "COPY", "UPDATE">>
upsert_cmds == <<"DROP", "CREATE", "COPY", "UPDATE", "DELETE", "INSERT">>

\* the commands of the load statements of a table, <<>> when generation fails
LoadCmds(schema_name, table) ==
    LET generated == load_stmt(schema_name, table)
    IN IF generated.ok THEN Keys(generated.value) ELSE <<>>

\* C5: a table loaded from a catalog document (policy under `meta` or `_meta`)
\* loads in overwrite mode iff it has neither primary_key nor timestamp_key or
\* truncate is set, and in upsert mode otherwise
C5_LoadModeSelection ==
    (pc \in {"loaded", "reloaded"} /\ warehouse.cls = "SnowflakeWarehouse") =>
        \A st \in AllTables(warehouse) :
            LET table == st[2]
                has_key == Truthy(table.meta.primary_key) \/ Truthy(table.meta.timestamp_key)
            IN LoadCmds(st[1], table) =
                  IF ~has_key \/ TruthyBool(table.meta.truncate)
                  THEN overwrite_cmds ELSE upsert_cmds

\* the fields of the schemas and tables of a warehouse, without the classes
FieldsOf(w) ==
    [i \in 1..Len(w.schemas) |->
        [w.schemas[i] EXCEPT !.tables =
            [j \in 1..Len(w.schemas[i].tables) |->
                [w.schemas[i].tables[j] EXCEPT !.cls = "BaseTable"]]]]

\* C7: from_serialized(serialized(W)) equals W field for field (schema
\* description and meta, table description and meta, columns in order)
C7_CatalogRoundTrip ==
    pc = "reloaded" => FieldsOf(warehouse) = FieldsOf(original)

(***************************************************************************)
(* Filter: BaseWarehouse.filter on a catalog                               *)
(***************************************************************************)
MaxFilterSchemas == 2
MaxFilterTables == 2

FilterTableNames == <<"table0", "Table1", "table2", "table3">>

FilterTables ==
    { Table("BaseTable", "", None, [DefaultMeta EXCEPT !.ignore = ignore], <<>>) :
        ignore \in BOOLEAN }

FilterWarehouses ==
    { Warehouse("BaseWarehouse", Named(schemas, SchemaNames)) :
        schemas \in SeqsUpTo(
            { Schema("", None, None, Named(tables, FilterTableNames)) :
                tables \in SeqsUpTo(FilterTables, MaxFilterTables) },
            MaxFilterSchemas) \ {<<>>} }

SchemaNameLists ==
    { NoneList, List({}), List({"schema0"}), List({"SCHEMA1", "missing"}) }

TableNameLists ==
    { NoneList, List({}), List({"TABLE0", "Table1"}),
      List({"table0", "table1", "table2"}) }

FilterInit ==
    /\ ExtIdle
    /\ pc = "filter"
    /\ warehouse \in FilterWarehouses
    /\ document = Null
    /\ original = Null
    /\ schema_names \in SchemaNameLists
    /\ table_names \in TableNameLists
    /\ stratify \in BOOLEAN
    /\ result = <<>>
    /\ PlanIdle
    /\ RunIdle

\* result = warehouse.filter(schema_names, table_names, stratify)
Filter ==
    /\ pc = "filter"
    /\ result' = filter(warehouse, schema_names, table_names, stratify)
    /\ pc' = "filtered"
    /\ UNCHANGED <<extVars, catalogVars, schema_names, table_names, stratify, planVars, runVars>>

FilterNext == Filter

SpecFilter == FilterInit /\ [][FilterNext]_vars

\* the <<schema name, table name>> pairs of a filter result
Selected(r) == {<<r[i][1], r[i][2].name>> : i \in 1..Len(r)}

\* C8 as stated: with explicit table_names a table is selected iff its name
\* is in the list; None selects the tables that are not ignored; schema_names
\* None selects all schemas, an empty list none
C8_FilterByListedName ==
    pc = "filtered" =>
        Selected(result) =
            { <<w[1], w[2].name>> : w \in
                { st \in AllTables(warehouse) :
                    /\ schema_names.none \/ st[1] \in schema_names.names
                    /\ IF table_names.none THEN ~st[2].meta.ignore
                       ELSE st[2].name \in table_names.names } }

\* C8 amended: names are matched against the lower-cased entries of the lists
C8_FilterByLoweredName ==
    pc = "filtered" =>
        /\ Selected(result) =
            { <<w[1], w[2].name>> : w \in
                { st \in AllTables(warehouse) :
                    /\ schema_names.none
                       \/ \E n \in schema_names.names : st[1] = lower(n)
                    /\ IF table_names.none THEN ~st[2].meta.ignore
                       ELSE \E n \in table_names.names : st[2].name = lower(n) } }
        /\ (~schema_names.none /\ schema_names.names = {}) => result = <<>>
        /\ (~table_names.none /\ table_names.names = {}) => result = <<>>

\* an ignored table was selected because the list named it
C8_Witness ==
    /\ pc = "filtered"
    /\ ~table_names.none
    /\ \E i \in 1..Len(result) : result[i][2].meta.ignore
    /\ \E st \in AllTables(warehouse) : <<st[1], st[2].name>> \notin Selected(result)


\* position of a schema in the catalog
SchemaPos(w, schema_name) == CHOOSE i \in 1..Len(w.schemas) : w.schemas[i].name = schema_name

\* i such that the entry is the i-th selected table of its schema
Rank(plain, entry) ==
    LET p == CHOOSE k \in 1..Len(plain) : plain[k] = entry
    IN Cardinality({k \in 1..p : plain[k][1] = entry[1]})

\* C9: filter(..., stratify=true) returns the tables of filter(...) without
\* stratify, none lost or duplicated, ordered round-robin: the i-th selected
\* table of every schema before the (i+1)-th of any schema, and schemas in
\* catalog order within a round
C9_StratifyInvariance ==
    (pc = "filtered" /\ stratify) =>
        LET plain == filter(warehouse, schema_names, table_names, FALSE)
        IN /\ Range(result) = Range(plain)
           /\ Len(result) = Len(plain)
           /\ Cardinality(Range(result)) = Len(result)
           /\ \A p, q \in 1..Len(result) :
                 p < q =>
                    \/ Rank(plain, result[p]) < Rank(plain, result[q])
                    \/ /\ Rank(plain, result[p]) = Rank(plain, result[q])
                       /\ SchemaPos(warehouse, result[p][1]) < SchemaPos(warehouse, result[q][1])

\* a stratified result over two schemas with different numbers of selected tables
C9_Witness ==
    /\ pc = "filtered"
    /\ stratify
    /\ Len(result) >= 3
    /\ \E s1, s2 \in {result[i][1] : i \in 1..Len(result)} :
          Cardinality({i \in 1..Len(result) : result[i][1] = s1})
            > Cardinality({i \in 1..Len(result) : result[i][1] = s2})
    /\ result # filter(warehouse, schema_names, table_names, FALSE)

(***************************************************************************)
(* Planner: ExtractLoadJob.from_table on one table                         *)
(***************************************************************************)
MaxBatches == 2
MaxOptionBatches == 3
MaxLookBack == 2

Today == MaxLookBack + 1

PlanTables ==
    { Table("SnowflakeTable", "table0", None,
            [DefaultMeta EXCEPT !.batches = batches, !.look_back_days = look_back_days,
                                !.timestamp_key = timestamp_key, !.truncate = truncate],
            <<column0, column1>>) :
        batches \in 1..MaxBatches,
        look_back_days \in {NoneInt} \cup 0..MaxLookBack,
        timestamp_key \in {None, "column1"},
        truncate \in {None, "True"} }

PlanOptions ==
    {Null} \cup
    { [DefaultTaskOptions EXCEPT !.start = start, !.end = start, !.batches = batches] :
        start \in {NoneInt, Today}, batches \in 1..MaxOptionBatches }

PlanInit ==
    /\ ExtIdle
    /\ pc = "plan"
    /\ warehouse = Null
    /\ document = Null
    /\ original = Null
    /\ FilterIdle
    /\ plan_table \in {<<"schema0", t>> : t \in PlanTables}
    /\ task_options \in PlanOptions
    /\ job = Null
    /\ uuid_count \in {0, 4}
    /\ RunIdle

\* job = ExtractLoadJob.from_table(table, task_options)
FromTable ==
    /\ pc = "plan"
    /\ job' = from_table(plan_table[1], plan_table[2], task_options, uuid_count, Today)
    /\ uuid_count' = uuid_count + UuidsOf(job')
    /\ pc' = "planned"
    /\ UNCHANGED <<extVars, catalogVars, filterVars, plan_table, task_options, runVars>>

PlanNext == FromTable

SpecPlan == PlanInit /\ [][PlanNext]_vars

\* the batches the caller supplied (TaskOptions() when no options are given)
CallerBatches == IF task_options = Null THEN DefaultTaskOptions.batches ELSE task_options.batches

\* the tasks of the job carry its job_id, the extracts are numbered 0..N-1
JobShape(job_) ==
    /\ job_.clean.task_type = "CleanTask"
    /\ job_.load.task_type = "LoadTask"
    /\ job_.clean.job_id = job_.job_id
    /\ job_.load.job_id = job_.job_id
    /\ \A k \in 1..Len(job_.extract) :
          /\ job_.extract[k].task_type = "ExtractTask"
          /\ job_.extract[k].task_number = k - 1
          /\ job_.extract[k].job_id = job_.job_id

\* C10 as stated: len(job.extract) = max(options.batches, table.meta.batches)
\* for the caller-supplied options
C10_JobShapeCallerBatches ==
    pc = "planned" =>
        /\ JobShape(job)
        /\ Len(job.extract) = Max(CallerBatches, plan_table[2].meta.batches)

\* the look-back rule of from_table applies
LookBackApplies ==
    /\ task_options = Null \/ task_options.start = NoneInt
    /\ TruthyInt(plan_table[2].meta.look_back_days)

\* C10 amended: under the look-back rule the caller's batches are replaced by
\* look_back_days (timestamp_key set) or 1 before the max()
C10_JobShape ==
    pc = "planned" =>
        /\ JobShape(job)
        /\ Len(job.extract) =
              Max(IF LookBackApplies
                  THEN (IF Truthy(plan_table[2].meta.timestamp_key)
                        THEN plan_table[2].meta.look_back_days ELSE 1)
                  ELSE CallerBatches,
                  plan_table[2].meta.batches)

\* a job planned under the look-back rule whose caller asked for more batches
C10_Witness ==
    /\ pc = "planned"
    /\ LookBackApplies
    /\ Len(job.extract) >= 2
    /\ CallerBatches > Len(job.extract)

(***************************************************************************)
(* Local run: cli_run over the schedule of a catalog                       *)
(***************************************************************************)
MaxRunTables == 2
MaxFiles == 1

RunTableDocuments ==
    { << <<"columns", columns_serialized0>> >>,
      << <<"columns", columns_serialized0>>,
         <<"meta", [primary_key |-> "column0;column1", timestamp_key |-> "column1",
                    timestamp_field |-> "column1"]>> >>,
      << <<"columns", columns_serialized0>>,
         <<"meta", [timestamp_key |-> "column1", batches |-> 2]>> >>,
      << <<"columns", columns_serialized0>>,
         <<"meta", [primary_key |-> "", timestamp_field |-> "column1"]>> >>,
      << <<"columns", columns_serialized0>>,
         <<"meta", [primary_key |-> "column0", truncate |-> "True"]>> >> }

RunDocuments ==
    { << <<"schema0", [i \in 1..Len(tables) |-> <<TableNames[i], tables[i]>>]>> >> :
        tables \in SeqsUpTo(RunTableDocuments, MaxRunTables) \ {<<>>} }

\* the values SELECT MAX(<timestamp_field>) can return
MaxTimestamps == {None, "datetime(2024, 1, 2)", "datetime(2024, 1, 3)"}

StaleItem == [field |-> "column1", value |-> "2024-01-01T00:00:00"]

RunInit ==
    /\ ExtIdle
    /\ pc = "cli_run"
    /\ document \in RunDocuments
    /\ warehouse = BaseWarehouse_from_serialized("SnowflakeWarehouse", document)
    /\ original = Null
    /\ FilterIdle
    /\ plan_table = Null
    /\ job = Null
    /\ task_options = DefaultTaskOptions
    /\ uuid_count = 0
    /\ stop_on_error \in BOOLEAN
    /\ schedule = <<>>
    /\ job_i = 0
    /\ task_i = 0
    /\ log = <<>>
    /\ stmts = <<>>
    /\ stmt_i = 0
    /\ executed = <<>>
    /\ extract_time_table =
          [k \in {table_uri(st[1], st[2], "") : st \in AllTables(warehouse)} |-> StaleItem]
    /\ before = extract_time_table
    /\ bucket = {get_key("schema0", TableNames[1], 0, 0)}
    /\ raised = None

\* the table a task of the current job works on, as <<schema name, table>>
CurrentTable(w, task) ==
    LET at == TableTask_table(w, task).value
    IN <<w.schemas[at[1]].name, w.schemas[at[1]].tables[at[2]]>>

\* tables = get_filtered_tables(...); schedule = Schedule.from_tables(tables, options)
CliRun ==
    /\ pc = "cli_run"
    /\ result' = get_filtered_tables(warehouse, schema_names, table_names)
    /\ LET planned == from_tables(result', task_options, uuid_count, Today)
           first == next_job(planned[1], 0)
       IN /\ schedule' = planned[1]
          /\ uuid_count' = planned[2]
          /\ pc' = first[1]
          /\ job_i' = first[2]
    /\ UNCHANGED <<extVars, catalogVars, schema_names, table_names, stratify, plan_table,
                   task_options, job, stop_on_error, task_i, log, stmts, stmt_i,
                   executed, extract_time_table, before, bucket, raised>>

\* rich.print(job.clean(warehouse))
Clean ==
    /\ pc = "clean"
    /\ LET task == schedule[job_i].clean
           found == TableTask_table(warehouse, task)
       IN \E outcome \in {"return", "raise"} :
            IF found.ok /\ outcome = "return"
            THEN /\ bucket' = clean_stage(bucket, CurrentTable(warehouse, task)[1],
                                          CurrentTable(warehouse, task)[2].name)
                 /\ log' = log \o <<Event(task, "start"), Event(task, "return")>>
                 /\ pc' = after_clean(schedule[job_i])[1]
                 /\ task_i' = after_clean(schedule[job_i])[2]
                 /\ raised' = raised
            ELSE /\ bucket' = bucket
                 /\ log' = log \o <<Event(task, "start"), Event(task, "raise")>>
                 /\ pc' = "raised"
                 /\ task_i' = task_i
                 /\ raised' = IF found.ok THEN "ClientError" ELSE found.error
    /\ UNCHANGED <<extVars, catalogVars, filterVars, planVars, stop_on_error, schedule, job_i,
                   stmts, stmt_i, executed, extract_time_table, before>>

\* rich.print(task(warehouse)) for task = job.extract[task_i]; an extract
\* that returns has uploaded MaxFiles files of its batch
Extract ==
    /\ pc = "extract"
    /\ LET task == schedule[job_i].extract[task_i]
           found == TableTask_table(warehouse, task)
       IN \E outcome \in {"return", "raise"} :
            IF found.ok /\ outcome = "return"
            THEN /\ bucket' = bucket \cup
                       { get_key(CurrentTable(warehouse, task)[1],
                                 CurrentTable(warehouse, task)[2].name,
                                 task.task_number, file) : file \in 0..(MaxFiles - 1) }
                 /\ log' = log \o <<Event(task, "start"), Event(task, "return")>>
                 /\ pc' = after_extract(schedule[job_i], task_i)[1]
                 /\ task_i' = after_extract(schedule[job_i], task_i)[2]
                 /\ raised' = raised
            ELSE /\ bucket' = bucket
                 /\ log' = log \o <<Event(task, "start"), Event(task, "raise")>>
                 /\ pc' = "raised"
                 /\ task_i' = task_i
                 /\ raised' = IF found.ok THEN "RuntimeError" ELSE found.error
    /\ UNCHANGED <<extVars, catalogVars, filterVars, planVars, stop_on_error, schedule, job_i,
                   stmts, stmt_i, executed, extract_time_table, before>>

\* job.load(warehouse) up to the evaluation of self.load_stmt()
LoadStart ==
    /\ pc = "load"
    /\ LET task == schedule[job_i].load
           found == TableTask_table(warehouse, task)
       IN IF ~found.ok
          THEN /\ log' = log \o <<Event(task, "start"), Event(task, "raise")>>
               /\ pc' = "raised"
               /\ raised' = found.error
               /\ UNCHANGED <<warehouse, stmts, stmt_i, before>>
          ELSE LET at == found.value
                   w1 == IF task.truncate # None
                         THEN [warehouse EXCEPT
                                 !.schemas[at[1]].tables[at[2]].meta.truncate = task.truncate]
                         ELSE warehouse
                   generated == load_stmt(w1.schemas[at[1]].name,
                                          w1.schemas[at[1]].tables[at[2]])
               IN /\ warehouse' = w1
                  /\ before' = extract_time_table
                  /\ IF generated.ok
                     THEN /\ stmts' = generated.value
                          /\ stmt_i' = 1
                          /\ log' = Append(log, Event(task, "start"))
                          /\ pc' = "execute"
                          /\ raised' = raised
                     ELSE /\ stmts' = <<>>
                          /\ stmt_i' = 0
                          /\ log' = log \o <<Event(task, "start"), Event(task, "raise")>>
                          /\ pc' = "raised"
                          /\ raised' = generated.error
    /\ UNCHANGED <<extVars, document, original, filterVars, planVars, stop_on_error, schedule,
                   job_i, task_i, executed, extract_time_table, bucket>>

\* one iteration of the statement loop: cursor.execute(stmt)
Execute ==
    /\ pc = "execute"
    /\ ~loop_finished(stmts, stmt_i)
    /\ LET task == schedule[job_i].load
       IN \E outcome \in {"ok", "ProgrammingError"} :
            IF outcome = "ok"
            THEN /\ executed' = Append(executed,
                                       [job_id |-> task.job_id, stmt |-> stmts[stmt_i][2]])
                 /\ stmt_i' = stmt_i + 1
                 /\ UNCHANGED <<pc, job_i, log, raised>>
            ELSE /\ log' = Append(log, Event(task, "raise"))
                 /\ raised' = outcome
                 /\ pc' = except_ProgrammingError(schedule, job_i, stop_on_error)[1]
                 /\ job_i' = except_ProgrammingError(schedule, job_i, stop_on_error)[2]
                 /\ UNCHANGED <<executed, stmt_i>>
    /\ UNCHANGED <<extVars, catalogVars, filterVars, planVars, stop_on_error, schedule, task_i,
                   stmts, extract_time_table, before, bucket>>

\* after the loop, timestamp_field set: SELECT MAX and set_latest_timestamp
Watermark ==
    /\ pc = "execute"
    /\ loop_finished(stmts, stmt_i)
    /\ LET task == schedule[job_i].load
           st == CurrentTable(warehouse, task)
       IN /\ Truthy(st[2].meta.timestamp_field)
          /\ \E outcome \in MaxTimestamps \cup {"ProgrammingError"} :
               IF outcome # "ProgrammingError"
               THEN /\ executed' = Append(executed,
                          [job_id |-> task.job_id, stmt |-> select_max_stmt(st[1], st[2])])
                    /\ extract_time_table' =
                          set_latest_timestamp(extract_time_table, st[1], st[2], outcome)
                    /\ log' = Append(log, Event(task, "return"))
                    /\ pc' = next_job(schedule, job_i)[1]
                    /\ job_i' = next_job(schedule, job_i)[2]
                    /\ raised' = raised
               ELSE /\ log' = Append(log, Event(task, "raise"))
                    /\ raised' = outcome
                    /\ pc' = except_ProgrammingError(schedule, job_i, stop_on_error)[1]
                    /\ job_i' = except_ProgrammingError(schedule, job_i, stop_on_error)[2]
                    /\ UNCHANGED <<executed, extract_time_table>>
    /\ UNCHANGED <<extVars, catalogVars, filterVars, planVars, stop_on_error, schedule, task_i,
                   stmts, stmt_i, before, bucket>>

\* after the loop, no timestamp_field: load_from_stage returns
LoadReturn ==
    /\ pc = "execute"
    /\ loop_finished(stmts, stmt_i)
    /\ LET task == schedule[job_i].load
       IN /\ ~Truthy(CurrentTable(warehouse, task)[2].meta.timestamp_field)
          /\ log' = Append(log, Event(task, "return"))
    /\ pc' = next_job(schedule, job_i)[1]
    /\ job_i' = next_job(schedule, job_i)[2]
    /\ UNCHANGED <<extVars, catalogVars, filterVars, planVars, stop_on_error, schedule, task_i,
                   stmts, stmt_i, executed, extract_time_table, before, bucket, raised>>

RunNext == CliRun \/ Clean \/ Extract \/ LoadStart \/ Execute \/ Watermark \/ LoadReturn

SpecRun == RunInit /\ [][RunNext]_vars

IsPrefix(a, b) == Len(a) <= Len(b) /\ \A i \in 1..Len(a) : a[i] = b[i]

\* the task ids of a job in declared order: clean, extract 0..N-1, load
DeclaredOrder(job_) ==
    <<job_.clean.task_id>> \o [k \in 1..Len(job_.extract) |-> job_.extract[k].task_id]
        \o <<job_.load.task_id>>

\* the task ids of the whole schedule in schedule order
ScheduleOrder ==
    LET F[i \in 0..Len(schedule)] ==
            IF i = 0 THEN <<>> ELSE F[i-1] \o DeclaredOrder(schedule[i])
    IN F[Len(schedule)]

\* the task ids of the start events, in the order of the log
Started ==
    LET starts == SelectSeq(log, LAMBDA e : e.event = "start")
    IN [i \in 1..Len(starts) |-> starts[i].task_id]

\* the task has an event of one of the kinds before position p of the log
EventBefore(p, task, kinds) ==
    \E q \in 1..(p - 1) : log[q].task_id = task.task_id /\ log[q].event \in kinds

JobOf(job_id) == CHOOSE k \in 1..Len(schedule) : schedule[k].job_id = job_id

\* C1: in local mode the tasks start in schedule order and, within a job, in the
\* order clean, extract 0..N-1, load; an extract starts only after the clean of
\* its job has returned, the load only after every extract of its job has
\* returned, and the clean of job k+1 only after the load of job k has finished;
\* a run that reaches the end of the schedule has started every task
C1_LocalDispatchOrder ==
    /\ IsPrefix(Started, ScheduleOrder)
    /\ pc = "done" => Started = ScheduleOrder
    /\ \A p \in 1..Len(log) :
          log[p].event = "start" =>
             LET k == JobOf(log[p].job_id)
             IN /\ log[p].task_type = "ExtractTask" =>
                      EventBefore(p, schedule[k].clean, {"return"})
                /\ log[p].task_type = "LoadTask" =>
                      /\ EventBefore(p, schedule[k].clean, {"return"})
                      /\ \A n \in 1..Len(schedule[k].extract) :
                            EventBefore(p, schedule[k].extract[n], {"return"})
                /\ (log[p].task_type = "CleanTask" /\ k > 1) =>
                      EventBefore(p, schedule[k-1].load, {"return", "raise"})

\* a finished run of two jobs, one of them with two extracts
C1_Witness ==
    /\ pc = "done"
    /\ Len(schedule) >= 2
    /\ \E k \in 1..Len(schedule) : Len(schedule[k].extract) >= 2
    /\ Len(Started) = Len(ScheduleOrder)

\* the log ends with the raise of a task of one of the types
LastRaise(types) ==
    /\ log # <<>>
    /\ log[Len(log)].event = "raise"
    /\ log[Len(log)].task_type \in types

\* C2: with stop_on_error the first error of any task aborts the remaining
\* jobs; without it an error of any task is reported and the dispatcher goes
\* on with the next job, so the run is never aborted
C2_ErrorPolicy ==
    /\ stop_on_error =>
          ((\E p \in 1..Len(log) : log[p].event = "raise") => pc = "raised")
    /\ ~stop_on_error => pc # "raised"

\* the statements executed for a job, without the watermark query
LoadStatements(job_id) ==
    LET own == SelectSeq(executed, LAMBDA e : e.job_id = job_id /\ e.stmt.cmd # "SELECT")
    IN [i \in 1..Len(own) |-> own[i].stmt]

\* C3: the Watermark Store changes only in load_from_stage after every
\* statement of load_stmt() has been executed, in order, and only in the entry
\* of the loaded table; a load that raises leaves the store as it was when
\* the load started
C3_WatermarkAfterLoad ==
    [][ /\ extract_time_table' # extract_time_table =>
             /\ pc = "execute"
             /\ LoadStatements(schedule[job_i].load.job_id) = Values(stmts)
             /\ \A k \in DOMAIN extract_time_table :
                   k # table_uri(schedule[job_i].load.schema_name,
                                 [name |-> schedule[job_i].load.table_name], "")
                      => extract_time_table'[k] = extract_time_table[k]
        /\ (Len(log') > Len(log) /\ log'[Len(log')].event = "raise"
               /\ log'[Len(log')].task_type = "LoadTask") =>
             extract_time_table' = before' ]_vars

\* a load of a table with a timestamp_field raised after some statement ran
C3_Witness ==
    /\ LastRaise({"LoadTask"})
    /\ raised = "ProgrammingError"
    /\ LoadStatements(log[Len(log)].job_id) # <<>>
    /\ Truthy(CurrentTable(warehouse, schedule[JobOf(log[Len(log)].job_id)].load)[2]
                 .meta.timestamp_field)
    /\ extract_time_table = before

\* the fixed sequences of the two load modes, as <<command, table suffix>>
OverwriteSequence ==
    << <<"TRUNCATE", "">>, <<"COPY", "">>, <<"UPDATE", "">> >>

UpsertSequence ==
    << <<"DROP", "_stage">>, <<"CREATE", "_stage">>, <<"COPY", "_stage">>,
       <<"UPDATE", "_stage">>, <<"DELETE", "">>, <<"INSERT", "">> >>

\* a table loads in upsert mode when it is an upsert table that is not truncated
UpsertMode(t) == t.cls = "SnowflakeTableUpsert" /\ ~TruthyBool(t.meta.truncate)

Returned(task) == \E p \in 1..Len(log) : log[p].task_id = task.task_id /\ log[p].event = "return"

\* C4: the load statements executed for a job are an initial part of the fixed
\* sequence of the mode of its table, each on the table of the job, and the
\* whole sequence once the load has returned; the staging table is created
\* LIKE the target and INSERT selects from the staging table
C4_FixedStatementSequence ==
    \A k \in 1..Len(schedule) :
        LET ran == LoadStatements(schedule[k].job_id)
            shape == [i \in 1..Len(ran) |-> <<ran[i].cmd, ran[i].table.suffix>>]
            st == CurrentTable(warehouse, schedule[k].load)
            expected == IF UpsertMode(st[2]) THEN UpsertSequence ELSE OverwriteSequence
        IN ran # <<>> =>
             /\ IsPrefix(shape, expected)
             /\ Returned(schedule[k].load) => shape = expected
             /\ \A i \in 1..Len(ran) :
                   /\ ran[i].table.schema = st[1]
                   /\ ran[i].table.table = st[2].name
                   /\ ran[i].cmd = "CREATE" => ran[i].like = table_uri(st[1], st[2], "")
                   /\ ran[i].cmd = "INSERT" =>
                         ran[i].select = table_uri(st[1], st[2], "_stage")

\* an upsert load and an overwrite load have both returned
C4_Witness ==
    /\ \E k \in 1..Len(schedule) :
          /\ Returned(schedule[k].load)
          /\ UpsertMode(CurrentTable(warehouse, schedule[k].load)[2])
          /\ Len(LoadStatements(schedule[k].job_id)) = Len(UpsertSequence)
    /\ \E k \in 1..Len(schedule) :
          /\ Returned(schedule[k].load)
          /\ ~UpsertMode(CurrentTable(warehouse, schedule[k].load)[2])
          /\ Len(LoadStatements(schedule[k].job_id)) = Len(OverwriteSequence)

\* C6: an executed DELETE matches by the components of primary_key when
\* primary_key is set (non-empty), also when timestamp_key is set too, and by
\* the timestamp range of timestamp_key otherwise; when neither is set the
\* generation fails with ValueError, no statement of that job has been
\* executed and the Watermark Store is as it was
C6_DeleteMatchResolution ==
    /\ \A i \in 1..Len(executed) :
          executed[i].stmt.cmd = "DELETE" =>
             LET meta == CurrentTable(warehouse,
                                      schedule[JobOf(executed[i].job_id)].load)[2].meta
                 stmt == executed[i].stmt
             IN IF Truthy(meta.primary_key)
                THEN /\ stmt.match = "primary_key"
                     /\ stmt.where = split_semicolon(meta.primary_key)
                ELSE /\ Truthy(meta.timestamp_key)
                     /\ stmt.match = "datetime_range"
                     /\ stmt.where = <<meta.timestamp_key>>
    /\ \A k \in 1..Len(schedule) :
          LET meta == CurrentTable(warehouse, schedule[k].load)[2].meta
          IN (/\ UpsertMode(CurrentTable(warehouse, schedule[k].load)[2])
              /\ ~Truthy(meta.primary_key)
              /\ ~Truthy(meta.timestamp_key))
                => \A i \in 1..Len(executed) : executed[i].job_id # schedule[k].job_id
    /\ (LastRaise({"LoadTask"}) /\ raised = "ValueError") =>
          /\ \A i \in 1..Len(executed) : executed[i].job_id # log[Len(log)].job_id
          /\ extract_time_table = before

\* a DELETE by a two-part primary key ran for a table that has a timestamp_key
\* too, and the generation failed for a later table
C6_Witness ==
    /\ LastRaise({"LoadTask"})
    /\ raised = "ValueError"
    /\ \E i \in 1..Len(executed) :
          /\ executed[i].stmt.cmd = "DELETE"
          /\ executed[i].stmt.match = "primary_key"
          /\ Len(executed[i].stmt.where) = 2
          /\ Truthy(CurrentTable(warehouse,
                                 schedule[JobOf(executed[i].job_id)].load)[2].meta.timestamp_key)

(***************************************************************************)
(* Task wire format: as_dict and TaskFactory.from_dict                     *)
(* (serializable.py, tasks.py)                                             *)
(***************************************************************************)
\* ErrorTask(job_id=..., database_name=..., ..., envs=envs)
ErrorTask(task_id, job_id, database, schema_name, table_name, envs) ==
    TableTask("ErrorTask", task_id, job_id, database, schema_name, table_name)
        @@ [envs |-> envs]

\* ScheduleTask(...) with __post_init__: default database, lower-cased names
ScheduleTask(task_id, database, schema_names_, table_names_, options) ==
    [task_type |-> "ScheduleTask", task_id |-> task_id,
     database_name |-> IF database = None THEN database_name ELSE database,
     schema_names |-> lower_all(schema_names_),
     table_names |-> lower_all(table_names_),
     options |-> options]

\* the defaults of the dataclass fields with init=True
FieldDefaults ==
    [job_id |-> NoneInt, database_name |-> None, schema_name |-> None,
     table_name |-> None, task_number |-> 0, options |-> DefaultTaskOptions,
     truncate |-> None, envs |-> <<>>, schema_names |-> NoneList,
     table_names |-> NoneList]

\* the fields declared with init=False: always written by as_dict
InitFalse == {"task_type", "task_id"}

\* BaseOptions.as_dict of a TaskOptions: the fields that differ from the default
TaskOptions_as_dict(options) ==
    [f \in {g \in DOMAIN options : options[g] # DefaultTaskOptions[g]} |-> options[f]]

\* TaskOptions.from_dict
TaskOptions_from_dict(data) ==
    [f \in DOMAIN DefaultTaskOptions |->
        IF f \in DOMAIN data THEN data[f] ELSE DefaultTaskOptions[f]]

\* as_dict that writes only the fields that differ from their default
Serializable_as_dict_init_only(obj) ==
    [f \in {g \in DOMAIN obj \ {"task_id"} : g = "task_type" \/ obj[g] # FieldDefaults[g]} |->
        IF f = "options" THEN TaskOptions_as_dict(obj[f]) ELSE obj[f]]

\* Serializable.as_dict of a task (BaseTask.as_dict adds task_type again)
Serializable_as_dict(obj) ==
    [f \in {g \in DOMAIN obj : g \in InitFalse \/ obj[g] # FieldDefaults[g]} |->
        IF f = "options" THEN TaskOptions_as_dict(obj[f]) ELSE obj[f]]

\* dict.get(key, default) on a wire dict
DataGet(data, key, default) == IF key \in DOMAIN data THEN data[key] ELSE default

\* TaskFactory._task_types
TaskTypes == {"ErrorTask", "ExtractTask", "CleanTask", "LoadTask", "ScheduleTask"}

\* cls(**fields_dict): the constructor of the class registered for task_type,
\* the fresh task_id is uuid + 1; ValueError of TableTask.__post_init__
Construct(task_type, data, uuid) ==
    LET get(key) == DataGet(data, key, FieldDefaults[key])
        options == IF "options" \in DOMAIN data THEN TaskOptions_from_dict(data.options)
                   ELSE DefaultTaskOptions
    IN IF task_type = "ScheduleTask"
       THEN Ok(ScheduleTask(uuid + 1, get("database_name"), get("schema_names"),
                            get("table_names"), options))
       ELSE IF \/ get("job_id") = NoneInt
               \/ get("database_name") = None
               \/ get("schema_name") = None
               \/ get("table_name") = None
       THEN Raise("ValueError")
       ELSE Ok(CASE task_type = "CleanTask" ->
                      CleanTask(uuid + 1, get("job_id"), get("database_name"),
                                get("schema_name"), get("table_name"))
                 [] task_type = "ExtractTask" ->
                      ExtractTask(uuid + 1, get("job_id"), get("database_name"),
                                  get("schema_name"), get("table_name"),
                                  get("task_number"), options)
                 [] task_type = "LoadTask" ->
                      LoadTask(uuid + 1, get("job_id"), get("database_name"),
                               get("schema_name"), get("table_name"), get("truncate"))
                 [] task_type = "ErrorTask" ->
                      ErrorTask(uuid + 1, get("job_id"), get("database_name"),
                                get("schema_name"), get("table_name"), get("envs")))

\* Serializable.from_dict: construct, then set the init=False fields from data
Serializable_from_dict(task_type, data, uuid) ==
    LET obj == Construct(task_type, data, uuid)
    IN IF ~obj.ok THEN obj
       ELSE Ok([f \in DOMAIN obj.value |->
                   IF f \in InitFalse /\ f \in DOMAIN data THEN data[f] ELSE obj.value[f]])

\* TaskFactory.from_dict
TaskFactory_from_dict(data, uuid) ==
    LET task_type == DataGet(data, "task_type", None)
    IN IF task_type \notin TaskTypes
       THEN Raise("ValueError")
       ELSE Serializable_from_dict(task_type, data, uuid)

\* an object of a class where the wire has a dict
Instance(cls, value) == [cls |-> cls, value |-> value]

isinstance_dict(x) == DOMAIN x # {"cls", "value"}

\* the map handed to TaskFactory.from_dict after the call: ExtractTask.from_dict
\* and ScheduleTask.from_dict store the TaskOptions they build under 'options'
from_dict_data(data) ==
    IF /\ DataGet(data, "task_type", None) \in {"ExtractTask", "ScheduleTask"}
       /\ "options" \in DOMAIN data
       /\ isinstance_dict(data.options)
    THEN [data EXCEPT !.options = Instance("TaskOptions", TaskOptions_from_dict(@))]
    ELSE data

\* TaskFactory.from_dict on a map that went through from_dict before:
\* TaskOptions.from_dict of a TaskOptions object has no items() to read
TaskFactory_from_dict_data(data, uuid) ==
    IF /\ DataGet(data, "task_type", None) \in {"ExtractTask", "ScheduleTask"}
       /\ "options" \in DOMAIN data
       /\ ~isinstance_dict(data.options)
    THEN Raise("AttributeError")
    ELSE TaskFactory_from_dict(data, uuid)

(***************************************************************************)
(* Wire: a task is written with as_dict and read with TaskFactory.from_dict *)
(***************************************************************************)
WireOptions ==
    { DefaultTaskOptions,
      [DefaultTaskOptions EXCEPT !.limit = 10],
      [DefaultTaskOptions EXCEPT !.start = Today, !.end = Today, !.batches = 2],
      [DefaultTaskOptions EXCEPT !.test_error = TRUE, !.fail_on_error = "true"] }

WireNameLists == { NoneList, List({}), List({"schema0"}), List({"TABLE0", "Table1"}) }

\* tasks of every variant, built by their constructors with task_id = uuid + 1
WireTasks(uuid) ==
    { CleanTask(uuid + 1, 7, "sources_dev", schema_name, "table0") :
        schema_name \in {"schema0", "SCHEMA1"} }
    \cup { ExtractTask(uuid + 1, 7, "sources_dev", "schema0", table_name, task_number, options) :
             table_name \in {"table0", "Table1"}, task_number \in {0, 1},
             options \in WireOptions }
    \cup { LoadTask(uuid + 1, 7, "sources_dev", "schema0", "table0", truncate) :
             truncate \in {None, "True", "False"} }
    \cup { ErrorTask(uuid + 1, 7, "test database", "test schema", "test table", envs) :
             envs \in {<<>>, << <<"FAIL_ON_ERROR", "true">> >>} }
    \cup { ScheduleTask(uuid + 1, database, names1, names2, options) :
             database \in {None, "sources"}, names1 \in WireNameLists,
             names2 \in WireNameLists, options \in WireOptions }

\* what can happen to the task_type entry of a map before it is read
Tampered(data, how) ==
    CASE how = "missing" -> [f \in DOMAIN data \ {"task_type"} |-> data[f]]
      [] how = "unregistered" -> [data EXCEPT !.task_type = "TableTask"]
      [] OTHER -> data

WireInit ==
    /\ pc = "task"
    /\ warehouse = Null
    /\ document = Null
    /\ original = Null
    /\ FilterIdle
    /\ plan_table = Null
    /\ task_options = Null
    /\ job = Null
    /\ uuid_count \in {1, 5}
    /\ RunIdle
    /\ wire_task \in WireTasks(uuid_count - 1)
    /\ wire = Null
    /\ decoded = Null
    /\ StoreIdle
    /\ TailIdle

\* wire = task.as_dict, possibly with the task_type entry removed or replaced;
\* as_dict calls the default_factory of task_id, which draws a uuid4()
AsDict ==
    /\ pc = "task"
    /\ \E how \in {"intact", "missing", "unregistered"} :
          /\ wire' = Tampered(Serializable_as_dict(wire_task), how)
          /\ pc' = how
    /\ uuid_count' = uuid_count + 1
    /\ UNCHANGED <<catalogVars, filterVars, plan_table, task_options, job, runVars,
                   wire_task, decoded, storeVars, tailVars>>

\* decoded = TaskFactory.from_dict(wire); original is the map as handed over
FromDict ==
    /\ pc \in {"intact", "missing", "unregistered"}
    /\ decoded' = TaskFactory_from_dict_data(wire, uuid_count)
    /\ wire' = from_dict_data(wire)
    /\ original' = wire
    /\ uuid_count' = IF decoded'.ok THEN uuid_count + 1 ELSE uuid_count
    /\ pc' = "decoded"
    /\ UNCHANGED <<warehouse, document, filterVars, plan_table, task_options, job, runVars,
                   wire_task, storeVars, tailVars>>

\* TaskFactory.from_dict(wire) once more on the same map; result keeps the
\* task of the first call
FromDictAgain ==
    /\ pc = "decoded"
    /\ decoded.ok
    /\ result' = <<decoded.value>>
    /\ decoded' = TaskFactory_from_dict_data(wire, uuid_count)
    /\ wire' = from_dict_data(wire)
    /\ uuid_count' = IF decoded'.ok THEN uuid_count + 1 ELSE uuid_count
    /\ pc' = "decoded_twice"
    /\ UNCHANGED <<catalogVars, schema_names, table_names, stratify, plan_table, task_options,
                   job, runVars, wire_task, storeVars, tailVars>>

WireNext == AsDict \/ FromDict \/ FromDictAgain

SpecWire == WireInit /\ [][WireNext]_vars

\* C12: TaskFactory.from_dict(as_dict(t)) is a task equal to t, of the same
\* variant and with the same task_id and task_type; from_dict of a map whose
\* task_type is missing or not registered raises ValueError and constructs
\* no task (no task_id is drawn)
C12_TaskWireRoundTrip ==
    pc = "decoded" =>
        IF "task_type" \in DOMAIN wire /\ wire.task_type \in TaskTypes
        THEN /\ decoded.ok
             /\ decoded.value = wire_task
             /\ decoded.value.task_id = wire_task.task_id
             /\ decoded.value.task_type = wire_task.task_type
        ELSE /\ ~decoded.ok
             /\ decoded.error = "ValueError"
             /\ uuid_count = wire_task.task_id + 1

\* an ExtractTask with options and a task number came back from the wire
C12_Witness ==
    /\ pc = "decoded"
    /\ decoded.ok
    /\ wire_task.task_type = "ExtractTask"
    /\ wire_task.task_number = 1
    /\ wire_task.options # DefaultTaskOptions
    /\ "options" \in DOMAIN wire
    /\ uuid_count = wire_task.task_id + 2

(***************************************************************************)
(* ScheduleTask.__call__ (tasks.py)                                        *)
(***************************************************************************)
\* str(value) of a str | None
str(value) == IF value = None THEN "None" ELSE value

\* ErrorTask.__call__ that raises before it sets the variables
ErrorTask_call_raise_first(task, environ_) ==
    [environ |-> environ_, error |-> "RuntimeError"]

\* ErrorTask.__call__: os.environ[key] = str(value) for the envs, then
\* RuntimeError
ErrorTask_call(task, environ_) ==
    LET F[i \in 0..Len(task.envs)] ==
            IF i = 0 THEN environ_
            ELSE DictSet(F[i-1], task.envs[i][1], str(task.envs[i][2]))
    IN [environ |-> F[Len(task.envs)], error |-> "RuntimeError"]

\* Schedule.error_schedule: one ErrorTask object serves as clean, extract and load
error_schedule(envs, uuid) ==
    LET error_task == ErrorTask(uuid + 2, uuid + 1, "test database", "test schema",
                                "test table", envs)
    IN << [job_id |-> uuid + 3, clean |-> error_task, extract |-> <<error_task>>,
           load |-> error_task] >>

\* Serializable.as_dict of an ExtractLoadJob
ExtractLoadJob_as_dict(job_) ==
    [job_id |-> job_.job_id,
     clean |-> Serializable_as_dict(job_.clean),
     extract |-> [k \in 1..Len(job_.extract) |-> Serializable_as_dict(job_.extract[k])],
     load |-> Serializable_as_dict(job_.load)]

\* Schedule.as_dict
Schedule_as_dict(schedule_) ==
    [schedule |-> [k \in 1..Len(schedule_) |-> ExtractLoadJob_as_dict(schedule_[k])]]

\* Python truthiness of a list | None
TruthyList(names) == ~names.none /\ names.names # {}

\* the uuid4() values as_dict draws for a schedule (one per task written)
AsDictUuids(schedule_) ==
    LET F[i \in 0..Len(schedule_)] ==
            IF i = 0 THEN 0 ELSE F[i-1] + 2 + Len(schedule_[i].extract)
    IN F[Len(schedule_)]

(***************************************************************************)
(* Schedule: a ScheduleTask is called on a catalog                         *)
(***************************************************************************)
ScheduleNameLists == { NoneList, List({"schema0"}) }

ScheduleOptions ==
    { DefaultTaskOptions,
      [DefaultTaskOptions EXCEPT !.limit = 10],
      [DefaultTaskOptions EXCEPT !.test_error = TRUE, !.fail_on_error = "true"] }

ScheduleInit ==
    /\ pc = "schedule_task"
    /\ warehouse \in FilterWarehouses
    /\ document = Null
    /\ original = Null
    /\ FilterIdle
    /\ plan_table = Null
    /\ task_options = Null
    /\ job = Null
    /\ uuid_count = 1
    /\ RunIdle
    /\ wire_task \in { ScheduleTask(1, None, names1, names2, options) :
                         names1 \in ScheduleNameLists, names2 \in TableNameLists,
                         options \in ScheduleOptions }
    /\ wire = Null
    /\ decoded = Null
    /\ StoreIdle
    /\ TailIdle

\* decoded = wire_task(warehouse)
ScheduleCall ==
    /\ pc = "schedule_task"
    /\ pc' = "scheduled"
    /\ IF wire_task.options.test_error
       THEN IF TruthyList(wire_task.table_names)
            THEN /\ schedule' = error_schedule(
                        << <<"FAIL_ON_ERROR", wire_task.options.fail_on_error>> >>,
                        uuid_count)
                 /\ uuid_count' = uuid_count + 3 + AsDictUuids(schedule')
                 /\ decoded' = Ok(Schedule_as_dict(schedule'))
                 /\ UNCHANGED <<result, raised, environ>>
            ELSE /\ environ' = DictSet(environ, "FAIL_ON_ERROR",
                                       str(wire_task.options.fail_on_error))
                 /\ raised' = "RuntimeError"
                 /\ decoded' = Raise("RuntimeError")
                 /\ UNCHANGED <<result, schedule, uuid_count>>
       ELSE /\ result' = filter(warehouse, wire_task.schema_names,
                                wire_task.table_names, TRUE)
            /\ LET planned == from_tables(result', wire_task.options, uuid_count, Today)
               IN /\ schedule' = planned[1]
                  /\ uuid_count' = planned[2] + AsDictUuids(planned[1])
            /\ decoded' = Ok(Schedule_as_dict(schedule'))
            /\ UNCHANGED <<raised, environ>>
    /\ UNCHANGED <<catalogVars, schema_names, table_names, stratify, plan_table,
                   task_options, job, stop_on_error, job_i, task_i, log, stmts, stmt_i,
                   executed, extract_time_table, before, bucket, wire_task, wire,
                   storeVars, encVars, cleanVars, extractVars, jobsVars, rangeVars>>

\* the tasks of a job with their place in it
JobTasks(job_) ==
    {[role |-> "clean", task |-> job_.clean], [role |-> "load", task |-> job_.load]}
        \cup {[role |-> "extract", task |-> job_.extract[k]] : k \in 1..Len(job_.extract)}

\* a task of the returned schedule is called: an ErrorTask applies its envs
\* and raises RuntimeError
ErrorTaskCall ==
    /\ pc = "scheduled"
    /\ decoded.ok
    /\ \E k \in 1..Len(schedule) : \E called \in JobTasks(schedule[k]) :
          /\ called.task.task_type = "ErrorTask"
          /\ \A i \in 1..Len(log) : log[i].role # called.role
          /\ LET outcome == ErrorTask_call(called.task, environ)
             IN /\ environ' = outcome.environ
                /\ raised' = outcome.error
          /\ log' = Append(log, [role |-> called.role, task_id |-> called.task.task_id])
    /\ UNCHANGED <<pc, catalogVars, filterVars, planVars, stop_on_error, schedule, job_i,
                   task_i, stmts, stmt_i, executed, extract_time_table, before, bucket,
                   wireVars, storeVars, encVars, cleanVars, extractVars, jobsVars, rangeVars>>

ScheduleNext == ScheduleCall \/ ErrorTaskCall

SpecSchedule == ScheduleInit /\ [][ScheduleNext]_vars

\* the returned schedule holds a Job for the table
HasJobFor(schema_name, table_name) ==
    /\ decoded.ok
    /\ \E k \in 1..Len(decoded.value.schedule) :
          /\ decoded.value.schedule[k].clean.schema_name = lower(schema_name)
          /\ decoded.value.schedule[k].clean.table_name = lower(table_name)

\* the ScheduleTask names the table explicitly (and selects its schema)
NamedExplicitly(schema_name, table_name) ==
    /\ wire_task.schema_names.none \/ schema_name \in wire_task.schema_names.names
    /\ ~wire_task.table_names.none
    /\ table_name \in wire_task.table_names.names

\* C11: for a table with meta.ignore=true, a ScheduleTask whose table_names
\* names the table returns a schedule with a Job for it, and a ScheduleTask
\* with table_names unset returns no Job for it
C11_IgnoreOnlyDefaultSchedules ==
    (pc = "scheduled" /\ ~wire_task.options.test_error) =>
        \A st \in AllTables(warehouse) :
            st[2].meta.ignore =>
                /\ NamedExplicitly(st[1], st[2].name) => HasJobFor(st[1], st[2].name)
                /\ wire_task.table_names.none => ~HasJobFor(st[1], st[2].name)

(***************************************************************************)
(* Task Store: to_dynamodb / from_dynamodb (tasks.py)                      *)
(***************************************************************************)
\* the numeric attributes of a task row and of its options
NumericFields == {"task_number"}
NumericOptions == {"batches", "total_rows", "limit"}

\* a number as the store returns it (decimal.Decimal)
Decimal(n) == [decimal |-> n]

\* Table.put_item that adds a row without replacing the row of the same key
put_item_append(rows, key, item) == Append(rows, item)

\* Table.put_item: the row with the key of the item is replaced, else added
put_item(rows, key, item) ==
    IF \E i \in 1..Len(rows) : rows[i][key] = item[key]
    THEN [i \in 1..Len(rows) |-> IF rows[i][key] = item[key] THEN item ELSE rows[i]]
    ELSE Append(rows, item)

\* a row as it is read back: numbers come back as Decimal
Deserialized(item) ==
    [f \in DOMAIN item |->
        IF f \in NumericFields THEN Decimal(item[f])
        ELSE IF f = "options"
        THEN [g \in DOMAIN item[f] |->
                 IF g \in NumericOptions THEN Decimal(item[f][g]) ELSE item[f][g]]
        ELSE item[f]]

\* Table.get_item(Key={key: value})['Item'], KeyError when there is no row
get_item(rows, key, value) ==
    IF \E i \in 1..Len(rows) : rows[i][key] = value
    THEN Ok(Deserialized(rows[CHOOSE i \in 1..Len(rows) : rows[i][key] = value]))
    ELSE Raise("KeyError")

\* TableTask.to_dynamodb
TableTask_to_dynamodb(rows, task) == put_item(rows, "task_id", Serializable_as_dict(task))

\* ExtractLoadJob.to_dynamodb: <<job table, task table>> after the call
ExtractLoadJob_to_dynamodb(job_rows, task_rows, job_) ==
    LET item == [job_id |-> job_.job_id, clean |-> job_.clean.task_id,
                 extract |-> [k \in 1..Len(job_.extract) |-> job_.extract[k].task_id],
                 load |-> job_.load.task_id]
        F[i \in 0..Len(job_.extract)] ==
            IF i = 0 THEN TableTask_to_dynamodb(task_rows, job_.clean)
            ELSE TableTask_to_dynamodb(F[i-1], job_.extract[i])
    IN <<put_item(job_rows, "job_id", item),
         TableTask_to_dynamodb(F[Len(job_.extract)], job_.load)>>

\* TableTask.from_dynamodb(task_id)
TableTask_from_dynamodb(rows, task_id, uuid) ==
    LET item == get_item(rows, "task_id", task_id)
    IN IF ~item.ok THEN item ELSE TaskFactory_from_dict(item.value, uuid)

\* ExtractLoadJob.from_dynamodb(job_id); the tasks are constructed in the order
\* clean, extract, load
ExtractLoadJob_from_dynamodb(job_rows, task_rows, job_id, uuid) ==
    LET job_dict == get_item(job_rows, "job_id", job_id)
    IN IF ~job_dict.ok THEN job_dict
       ELSE LET n == Len(job_dict.value.extract)
                clean == TableTask_from_dynamodb(task_rows, job_dict.value.clean, uuid)
                extract == [k \in 1..n |->
                    TableTask_from_dynamodb(task_rows, job_dict.value.extract[k], uuid + k)]
                load == TableTask_from_dynamodb(task_rows, job_dict.value.load, uuid + n + 1)
            IN IF ~clean.ok THEN clean
               ELSE IF \E k \in 1..n : ~extract[k].ok
               THEN extract[CHOOSE k \in 1..n : ~extract[k].ok]
               ELSE IF ~load.ok THEN load
               ELSE Ok([job_id |-> job_dict.value.job_id, clean |-> clean.value,
                        extract |-> [k \in 1..n |-> extract[k].value],
                        load |-> load.value])

\* the int a Decimal equals under Python's ==, for the fields read from a row
Undecimal(task, item) ==
    [f \in DOMAIN task |->
        IF f \in NumericFields /\ f \in DOMAIN item THEN task[f].decimal
        ELSE IF f = "options" /\ f \in DOMAIN item
        THEN [g \in DOMAIN task[f] |->
                 IF g \in NumericOptions /\ g \in DOMAIN item[f]
                 THEN task[f][g].decimal ELSE task[f][g]]
        ELSE task[f]]

(***************************************************************************)
(* Store: tasks and jobs are written and read back                         *)
(***************************************************************************)
MaxWrites == 2

StoreTables ==
    { Table("SnowflakeTable", "table0", None,
            [DefaultMeta EXCEPT !.batches = batches, !.truncate = truncate],
            <<column0, column1>>) :
        batches \in 1..MaxBatches, truncate \in {None, "False"} }

\* the jobs of the planner, and the job of the error schedule
StoreJobs ==
    { from_table("schema0", t, options, 0, Today) :
        t \in StoreTables, options \in WireOptions }
    \cup { error_schedule(<< <<"FAIL_ON_ERROR", "true">> >>, 0)[1] }

TasksOf(job_) == {job_.clean, job_.load} \cup Range(job_.extract)

StoreInit ==
    /\ pc = "store"
    /\ warehouse = Null
    /\ document = Null
    /\ original = Null
    /\ FilterIdle
    /\ plan_table = Null
    /\ task_options = Null
    /\ job \in StoreJobs
    /\ uuid_count = UuidsOf(job)
    /\ RunIdle
    /\ wire_task \in TasksOf(job)
    /\ wire = Null
    /\ decoded = Null
    /\ StoreIdle
    /\ TailIdle

\* wire_task.to_dynamodb()
TaskToDynamodb ==
    /\ pc = "store"
    /\ task_writes < MaxWrites
    /\ task_table' = TableTask_to_dynamodb(task_table, wire_task)
    /\ task_writes' = task_writes + 1
    /\ uuid_count' = uuid_count + 1
    /\ UNCHANGED <<pc, catalogVars, filterVars, plan_table, task_options, job, runVars,
                   wireVars, job_table, job_writes, tailVars>>

\* job.to_dynamodb()
JobToDynamodb ==
    /\ pc = "store"
    /\ job_writes < MaxWrites
    /\ job_table' = ExtractLoadJob_to_dynamodb(job_table, task_table, job)[1]
    /\ task_table' = ExtractLoadJob_to_dynamodb(job_table, task_table, job)[2]
    /\ job_writes' = job_writes + 1
    /\ uuid_count' = uuid_count + 2 + Len(job.extract)
    /\ UNCHANGED <<pc, catalogVars, filterVars, plan_table, task_options, job, runVars,
                   wireVars, task_writes, tailVars>>

\* decoded = TableTask.from_dynamodb(wire_task.task_id)
TaskFromDynamodb ==
    /\ pc = "store"
    /\ decoded' = TableTask_from_dynamodb(task_table, wire_task.task_id, uuid_count)
    /\ uuid_count' = IF decoded'.ok THEN uuid_count + 1 ELSE uuid_count
    /\ pc' = "task_loaded"
    /\ UNCHANGED <<catalogVars, filterVars, plan_table, task_options, job, runVars,
                   wire_task, wire, storeVars, tailVars>>

\* decoded = ExtractLoadJob.from_dynamodb(job.job_id)
JobFromDynamodb ==
    /\ pc = "store"
    /\ decoded' = ExtractLoadJob_from_dynamodb(job_table, task_table, job.job_id, uuid_count)
    /\ uuid_count' = IF decoded'.ok THEN uuid_count + 2 + Len(job.extract) ELSE uuid_count
    /\ pc' = "job_loaded"
    /\ UNCHANGED <<catalogVars, filterVars, plan_table, task_options, job, runVars,
                   wire_task, wire, storeVars, tailVars>>

StoreNext == TaskToDynamodb \/ JobToDynamodb \/ TaskFromDynamodb \/ JobFromDynamodb

SpecStore == StoreInit /\ [][StoreNext]_vars

\* the row of a task in the task table
RowOf(task) == task_table[CHOOSE i \in 1..Len(task_table) : task_table[i].task_id = task.task_id]

RowsOf(rows, key, value) == Cardinality({i \in 1..Len(rows) : rows[i][key] = value})

\* C13: a task (a TableTask variant, the tasks that have to_dynamodb) or a
\* job written once or several times reads back equal to the original under
\* Python equality (numbers come back as Decimal), and the tables hold one
\* row per task_id and one row per job_id
C13_PersistenceIdempotence ==
    /\ \A i \in 1..Len(task_table) : RowsOf(task_table, "task_id", task_table[i].task_id) = 1
    /\ \A i \in 1..Len(job_table) : RowsOf(job_table, "job_id", job_table[i].job_id) = 1
    /\ (task_writes + job_writes > 0) => RowsOf(task_table, "task_id", wire_task.task_id) = 1
    /\ job_writes > 0 =>
          /\ RowsOf(job_table, "job_id", job.job_id) = 1
          /\ Len(task_table) = Cardinality({t.task_id : t \in TasksOf(job)})
    /\ (pc = "task_loaded" /\ task_writes + job_writes > 0) =>
          /\ decoded.ok
          /\ Undecimal(decoded.value, RowOf(wire_task)) = wire_task
    /\ (pc = "job_loaded" /\ job_writes > 0) =>
          /\ decoded.ok
          /\ decoded.value.job_id = job.job_id
          /\ Undecimal(decoded.value.clean, RowOf(job.clean)) = job.clean
          /\ Undecimal(decoded.value.load, RowOf(job.load)) = job.load
          /\ Len(decoded.value.extract) = Len(job.extract)
          /\ \A k \in 1..Len(job.extract) :
                Undecimal(decoded.value.extract[k], RowOf(job.extract[k])) = job.extract[k]

\* a job with two extracts and options, written twice together with one of
\* its extract tasks written twice, was read back
C13_Witness ==
    /\ pc = "job_loaded"
    /\ job_writes = MaxWrites
    /\ task_writes = MaxWrites
    /\ decoded.ok
    /\ Len(job.extract) >= 2
    /\ wire_task.task_type = "ExtractTask"
    /\ wire_task.task_number = 1
    /\ wire_task.options.limit = 10

(***************************************************************************)
(* Encoder: GzipFileBuffer and get_data_bytes (tables.py)                  *)
(***************************************************************************)
\* bytes a fresh GzipFile puts into its buffer (the gzip member header)
GzipHeader == 10

\* GzipFileBuffer(max_file_size); the body is kept as the rows written
GzipFileBuffer(max_file_size_) ==
    [max_file_size |-> max_file_size_, body |-> <<>>, nbytes |-> GzipHeader,
     file_number |-> 1, row_count |-> 0]

\* is_too_large that asks for more than max_file_size bytes
is_too_large_strict(fb_) == fb_.nbytes > fb_.max_file_size

\* GzipFileBuffer.is_too_large
is_too_large(fb_) == fb_.nbytes >= fb_.max_file_size

\* len(GzipFileBuffer.get_csv_bytes(rows)): a row is named by the number of
\* bytes of its csv line
get_csv_bytes(rows) ==
    LET F[i \in 0..Len(rows)] == IF i = 0 THEN 0 ELSE F[i-1] + rows[i]
    IN F[Len(rows)]

\* GzipFileBuffer.write(rows); flushed is the number of compressed bytes the
\* compressor has handed to the buffer during the call
GzipFileBuffer_write(fb_, rows, flushed) ==
    [fb_ EXCEPT !.body = @ \o rows, !.nbytes = @ + flushed, !.row_count = @ + Len(rows)]

\* GzipFileBuffer.get_data_bytes that keeps row_count
GzipFileBuffer_get_data_bytes_keep_count(fb_) ==
    << [body |-> fb_.body, file_number |-> fb_.file_number, row_count |-> fb_.row_count],
       [fb_ EXCEPT !.body = <<>>, !.nbytes = GzipHeader, !.file_number = @ + 1] >>

\* GzipFileBuffer.get_data_bytes: <<the DataBytes, the buffer after the call>>
GzipFileBuffer_get_data_bytes(fb_) ==
    << [body |-> fb_.body, file_number |-> fb_.file_number, row_count |-> fb_.row_count],
       [fb_ EXCEPT !.body = <<>>, !.nbytes = GzipHeader, !.file_number = @ + 1,
                   !.row_count = 0] >>

\* the next tuple of itertools.batched(data, n) after `taken` rows
batched(rows, n, taken) ==
    SubSeq(rows, taken + 1, IF taken + n < Len(rows) THEN taken + n ELSE Len(rows))

MaxRows == 3
MaxRowBytes == 2
MaxCsvBatch == 2

EncoderData == UNION { [1..n -> 1..MaxRowBytes] : n \in 0..MaxRows }
MaxFileSizes == {1, GzipHeader + 1, GzipHeader + MaxRowBytes + 1}

notEncVars == <<catalogVars, filterVars, planVars, runVars, wireVars, storeVars, cleanVars,
                extractVars, jobsVars, rangeVars, envVars>>

NotEncIdle ==
    /\ warehouse = Null
    /\ document = Null
    /\ original = Null
    /\ FilterIdle
    /\ PlanIdle
    /\ RunIdle
    /\ WireIdle
    /\ StoreIdle
    /\ CleanIdle
    /\ ExtractIdle
    /\ JobsIdle
    /\ RangeIdle
    /\ EnvIdle

\* fb = GzipFileBuffer(max_file_size)
EncoderInit ==
    /\ pc = "encode"
    /\ NotEncIdle
    /\ extract_data \in EncoderData
    /\ max_file_size \in MaxFileSizes
    /\ csv_batch_size \in 1..MaxCsvBatch
    /\ read = 0
    /\ fb = GzipFileBuffer(max_file_size)
    /\ yielded = <<>>

\* one pass of the loop over batched(data, csv_batch_size)
WriteBatch ==
    /\ pc = "encode"
    /\ read < Len(extract_data)
    /\ LET rows == batched(extract_data, csv_batch_size, read)
       IN /\ read' = read + Len(rows)
          /\ \E flushed \in 0..get_csv_bytes(rows) :
                LET written == GzipFileBuffer_write(fb, rows, flushed)
                IN IF is_too_large(written)
                   THEN /\ yielded' = Append(yielded, GzipFileBuffer_get_data_bytes(written)[1])
                        /\ fb' = GzipFileBuffer_get_data_bytes(written)[2]
                   ELSE /\ fb' = written
                        /\ UNCHANGED yielded
    /\ UNCHANGED <<pc, notEncVars, extract_data, max_file_size, csv_batch_size>>

\* the data is exhausted: the final DataBytes when the buffer holds rows
FinalBytes ==
    /\ pc = "encode"
    /\ read = Len(extract_data)
    /\ IF fb.row_count > 0
       THEN /\ yielded' = Append(yielded, GzipFileBuffer_get_data_bytes(fb)[1])
            /\ fb' = GzipFileBuffer_get_data_bytes(fb)[2]
       ELSE UNCHANGED <<yielded, fb>>
    /\ pc' = "encoded"
    /\ UNCHANGED <<notEncVars, extract_data, max_file_size, csv_batch_size, read>>

EncoderNext == WriteBatch \/ FinalBytes

SpecEncoder == EncoderInit /\ [][EncoderNext]_vars

\* the rows of the first n files, in the order they were yielded
FileRows(n) ==
    LET F[i \in 0..n] == IF i = 0 THEN <<>> ELSE F[i-1] \o yielded[i].body
    IN F[n]

RowCounts(n) ==
    LET F[i \in 0..n] == IF i = 0 THEN 0 ELSE F[i-1] + yielded[i].row_count
    IN F[n]

\* C14: the files are numbered 1, 2, ... in the order they are yielded; when
\* the generator is exhausted their rows, concatenated in that order, are the
\* input rows in order and their row_count sum to the number of input rows
C14_EncoderConservation ==
    /\ \A i \in 1..Len(yielded) : yielded[i].file_number = i
    /\ \A i \in 1..Len(yielded) : yielded[i].row_count = Len(yielded[i].body)
    /\ pc = "encode" => FileRows(Len(yielded)) \o fb.body = SubSeq(extract_data, 1, read)
    /\ pc = "encoded" =>
          /\ FileRows(Len(yielded)) = extract_data
          /\ RowCounts(Len(yielded)) = Len(extract_data)

\* three rows went into two files, the second one the final, smaller file
C14_Witness ==
    /\ pc = "encoded"
    /\ Len(extract_data) = MaxRows
    /\ Len(yielded) = 2
    /\ yielded[1].row_count = 2
    /\ yielded[2].row_count = 1

(***************************************************************************)
(* Staging bucket: keys, listing by prefix, clean_stage (tables.py)        *)
(***************************************************************************)
\* the characters of the names of the model
chars(name) ==
    CASE name = "schema0" -> <<"s", "c", "h", "e", "m", "a", "0">>
      [] name = "schema1" -> <<"s", "c", "h", "e", "m", "a", "1">>
      [] name = "table0" -> <<"t", "a", "b", "l", "e", "0">>
      [] name = "table1" -> <<"t", "a", "b", "l", "e", "1">>
      [] name = "table10" -> <<"t", "a", "b", "l", "e", "1", "0">>
      [] name = "table1_stage" ->
            <<"t", "a", "b", "l", "e", "1", "_", "s", "t", "a", "g", "e">>

\* clean_stage: prefix = f'{schema.name}/{name}' without the closing slash
stage_prefix_no_slash(schema_name, table_name) ==
    chars(schema_name) \o <<"/">> \o chars(table_name)

\* clean_stage: prefix = f'{self.schema.name}/{self.name}/'
stage_prefix(schema_name, table_name) ==
    chars(schema_name) \o <<"/">> \o chars(table_name) \o <<"/">>

\* get_key as a string: the directory part character by character, the file
\* name f'{name}_b{batch:02d}_f{file:02d}.csv.gz' by its parts
stage_key(schema_name, table_name, batch, file) ==
    [dir |-> chars(schema_name) \o <<"/">> \o chars(table_name) \o <<"/">>,
     name |-> table_name, batch |-> batch, file |-> file]

\* key.startswith(prefix), for a prefix that ends within the directory part
startswith(key, prefix) == IsPrefix(prefix, key.dir)

\* bucket.objects.filter(Prefix=prefix): the objects in key order
objects_filter(bucket_, prefix) ==
    SelectSeq(bucket_, LAMBDA obj : startswith(obj.key, prefix))

\* bucket.delete_objects(Delete={'Objects': objects})
delete_objects(bucket_, objects) ==
    LET keys == Range(objects)
    IN SelectSeq(bucket_, LAMBDA obj : obj.key \notin keys)

\* clean_stage: the number of keys that make the loop send a request
DeleteLimit == 1000

(***************************************************************************)
(* Clean: clean_stage request by request                                   *)
(***************************************************************************)
MaxRequests == 2

\* an object of the bucket
Object(key, body) == [key |-> key, body |-> body]

\* n objects of a table, in key order, put before the runs of the model
ObjectsOf(schema_name, table_name, n) ==
    [i \in 1..n |-> Object(stage_key(schema_name, table_name, 0, i),
                           [task |-> 0, file |-> i, attempt |-> 0])]

CleanCounts ==
    { n \in { k * DeleteLimit + d : k \in 0..MaxRequests, d \in {0 - 1, 0, 1} } :
        n >= 0 /\ n <= MaxRequests * DeleteLimit + 1 }

\* the buckets in key order: schema0/table1/, schema0/table10/, schema1/table1/
CleanBuckets ==
    { ObjectsOf("schema0", "table1", a) \o ObjectsOf("schema0", "table10", b)
        \o ObjectsOf("schema1", "table1", c) :
        a \in CleanCounts, b \in {0, 2}, c \in {0, 1} }

notCleanVars == <<catalogVars, filterVars, planVars, runVars, wireVars, storeVars, encVars,
                  extractVars, jobsVars, rangeVars, envVars>>

NotCleanIdle ==
    /\ warehouse = Null
    /\ document = Null
    /\ original = Null
    /\ FilterIdle
    /\ PlanIdle
    /\ RunIdle
    /\ WireIdle
    /\ StoreIdle
    /\ EncIdle
    /\ ExtractIdle
    /\ JobsIdle
    /\ RangeIdle
    /\ EnvIdle

\* clean_stage up to the start of the loop over the listing
CleanStageInit ==
    /\ pc = "cleaning"
    /\ NotCleanIdle
    /\ stage_bucket \in CleanBuckets
    /\ stage_before = stage_bucket
    /\ stage_table \in {<<"schema0", "table1">>, <<"schema0", "table10">>}
    /\ listed = objects_filter(stage_bucket, stage_prefix(stage_table[1], stage_table[2]))
    /\ counter = 0
    /\ delete_requests = <<>>
    /\ clean_result = NoneInt

\* the loop has collected DeleteLimit keys: bucket.delete_objects inside the loop
DeleteInLoop ==
    /\ pc = "cleaning"
    /\ Len(listed) >= DeleteLimit
    /\ LET objects == [i \in 1..DeleteLimit |-> listed[i].key]
       IN /\ stage_bucket' = delete_objects(stage_bucket, objects)
          /\ delete_requests' = Append(delete_requests, objects)
          /\ counter' = counter + DeleteLimit
          /\ listed' = SubSeq(listed, DeleteLimit + 1, Len(listed))
    /\ UNCHANGED <<pc, notCleanVars, stage_before, stage_table, clean_result>>

\* the listing ends: the request for the keys left over, and the message
CleanReturn ==
    /\ pc = "cleaning"
    /\ Len(listed) < DeleteLimit
    /\ LET objects == [i \in 1..Len(listed) |-> listed[i].key]
       IN /\ IF objects # <<>>
             THEN /\ stage_bucket' = delete_objects(stage_bucket, objects)
                  /\ delete_requests' = Append(delete_requests, objects)
             ELSE UNCHANGED <<stage_bucket, delete_requests>>
          /\ counter' = counter + Len(listed)
          /\ clean_result' = counter + Len(listed)
          /\ listed' = <<>>
    /\ pc' = "cleaned"
    /\ UNCHANGED <<notCleanVars, stage_before, stage_table>>

CleanNext == DeleteInLoop \/ CleanReturn

SpecClean == CleanStageInit /\ [][CleanNext]_vars

\* the object is one of the table at work: its key is a key of that table
UnderPrefix(obj) == obj.key.dir = stage_key(stage_table[1], stage_table[2], 0, 0).dir

\* the keys named in the delete requests sent so far
RequestedKeys == UNION { Range(delete_requests[i]) : i \in 1..Len(delete_requests) }

\* C15: when clean_stage returns no object under <schema>/<table>/ is left,
\* the keys requested for deletion are the keys that were under the prefix,
\* the reported number is their number, no request carries more than 1000
\* keys, and the objects outside the prefix (those of a table whose name
\* extends the table's name among them) are as they were
C15_CleanPostcondition ==
    /\ \A i \in 1..Len(delete_requests) :
          Len(delete_requests[i]) >= 1 /\ Len(delete_requests[i]) <= DeleteLimit
    /\ pc = "cleaned" =>
          /\ \A i \in 1..Len(stage_bucket) : ~UnderPrefix(stage_bucket[i])
          /\ RequestedKeys = { stage_before[i].key : i \in { j \in 1..Len(stage_before) :
                                                            UnderPrefix(stage_before[j]) } }
          /\ clean_result = Cardinality(RequestedKeys)
          /\ clean_result = Len(stage_before) - Len(stage_bucket)
          /\ stage_bucket = SelectSeq(stage_before, LAMBDA obj : ~UnderPrefix(obj))

\* table1 was cleaned with two full requests and a last one of one key, and
\* the objects of table10 and of the other schema are still there
C15_Witness ==
    /\ pc = "cleaned"
    /\ stage_table = <<"schema0", "table1">>
    /\ Len(delete_requests) = 3
    /\ Len(delete_requests[3]) = 1
    /\ clean_result = 2 * DeleteLimit + 1
    /\ Len(stage_bucket) = 3
    /\ stage_bucket[1].key.name = "table10"

(***************************************************************************)
(* upload_to_stage: put_object into the bucket kept in key order           *)
(***************************************************************************)
\* the order of the characters of the names
ord(c) ==
    CASE c = "/" -> 47 [] c = "0" -> 48 [] c = "1" -> 49 [] c = "_" -> 95 [] c = "a" -> 97
      [] c = "g" -> 103
      [] c = "b" -> 98 [] c = "c" -> 99 [] c = "e" -> 101 [] c = "h" -> 104
      [] c = "l" -> 108 [] c = "m" -> 109 [] c = "s" -> 115 [] c = "t" -> 116

\* a < b for two strings given by their characters
RECURSIVE StrLess(_, _)
StrLess(a, b) ==
    IF b = <<>> THEN FALSE
    ELSE IF a = <<>> THEN TRUE
    ELSE IF Head(a) # Head(b) THEN ord(Head(a)) < ord(Head(b))
    ELSE StrLess(Tail(a), Tail(b))

\* the order of the keys of the bucket
KeyLess(a, b) ==
    \/ StrLess(a.dir, b.dir)
    \/ /\ a.dir = b.dir
       /\ \/ a.batch < b.batch
          \/ a.batch = b.batch /\ a.file < b.file

\* bucket.put_object(Body=body, Key=key): the object of the key is replaced
put_object(bucket_, key, body) ==
    SelectSeq(bucket_, LAMBDA obj : KeyLess(obj.key, key))
        \o <<Object(key, body)>>
        \o SelectSeq(bucket_, LAMBDA obj : KeyLess(key, obj.key))

(***************************************************************************)
(* Extract: the extract tasks of one job run in parallel                   *)
(***************************************************************************)
MaxUploads == 2

\* the table whose job is extracted
ExtractTables ==
    { Table("SnowflakeTable", "table1", None, [DefaultMeta EXCEPT !.batches = batches],
            <<column0, column1>>) : batches \in 1..MaxBatches }

\* the batch an extract function hands to upload_to_stage: the task_number of
\* its task, or nothing, which is the default batch 0
BatchArguments(task) == {task.task_number, 0}

\* the keys in the bucket, and the keys of the table at work
BucketKeys(bucket_) == { bucket_[i].key : i \in 1..Len(bucket_) }

TaskNumbers == DOMAIN workers

notExtractVars == <<catalogVars, filterVars, plan_table, task_options, uuid_count, runVars,
                    wireVars, storeVars, encVars, jobsVars, rangeVars, envVars>>

ExtractInit ==
    /\ pc = "extracting"
    /\ warehouse = Null
    /\ document = Null
    /\ original = Null
    /\ FilterIdle
    /\ plan_table \in ExtractTables
    /\ task_options = DefaultTaskOptions
    /\ job = from_table("schema0", plan_table, task_options, 0, Today)
    /\ uuid_count = UuidsOf(job)
    /\ RunIdle
    /\ WireIdle
    /\ StoreIdle
    /\ EncIdle
    /\ JobsIdle
    /\ RangeIdle
    /\ EnvIdle
    /\ stage_bucket \in {<<>>, ObjectsOf("schema0", "table10", 1)}
    /\ stage_before = stage_bucket
    /\ stage_table = <<"schema0", plan_table.name>>
    /\ listed = <<>>
    /\ counter = 0
    /\ delete_requests = <<>>
    /\ clean_result = NoneInt
    /\ workers \in { w \in [ {job.extract[k].task_number : k \in 1..Len(job.extract)} ->
                              [state : {"uploading"}, batch : 0..MaxBatches,
                               files : 0..MaxUploads, file : {0}, puts : {{}}] ] :
                     \A k \in 1..Len(job.extract) :
                        w[job.extract[k].task_number].batch \in BatchArguments(job.extract[k]) }
    /\ attempt = 0
    /\ current = 0

\* one pass of the loop of upload_to_stage of one task: the next file is put
UploadFile(n) ==
    /\ pc = "extracting"
    /\ workers[n].state = "uploading"
    /\ workers[n].file < workers[n].files
    /\ LET file_number == workers[n].file + 1
           key == stage_key(stage_table[1], stage_table[2], workers[n].batch, file_number)
       IN /\ stage_bucket' = put_object(stage_bucket, key,
                                        [task |-> n, file |-> file_number, attempt |-> 1])
          /\ workers' = [workers EXCEPT ![n].file = file_number,
                                        ![n].puts = @ \cup {key}]
    /\ UNCHANGED <<pc, notExtractVars, job, stage_before, stage_table, listed, counter,
                   delete_requests, clean_result, attempt, current>>

\* upload_to_stage and the extract function of one task return
ExtractReturn(n) ==
    /\ pc = "extracting"
    /\ workers[n].state = "uploading"
    /\ workers[n].file = workers[n].files
    /\ workers' = [workers EXCEPT ![n].state = "returned"]
    /\ pc' = IF \A m \in TaskNumbers \ {n} : workers[m].state = "returned"
             THEN "extracted" ELSE pc
    /\ UNCHANGED <<notExtractVars, job, cleanVars, attempt, current>>

ExtractNext == \E n \in TaskNumbers : UploadFile(n) \/ ExtractReturn(n)

SpecExtract == ExtractInit /\ [][ExtractNext]_vars

\* what the extract tasks have done to the bucket does not depend on their
\* interleaving: each task has written keys of its own batch only, no two
\* tasks have written a common key, the bucket holds what it held before
\* and the objects put, each as its task put it, and at the end the stage
\* of the table is the union of what the tasks have put
ExtractsIndependent ==
    /\ \A n \in TaskNumbers : \A key \in workers[n].puts : key.batch = n
    /\ \A n \in TaskNumbers : \A m \in TaskNumbers \ {n} :
          workers[n].puts \cap workers[m].puts = {}
    /\ BucketKeys(stage_bucket) =
          BucketKeys(stage_before) \cup UNION { workers[n].puts : n \in TaskNumbers }
    /\ \A i \in 1..Len(stage_bucket) :
          \/ stage_bucket[i].key \in BucketKeys(stage_before)
          \/ /\ stage_bucket[i].body.task \in TaskNumbers
             /\ stage_bucket[i].key \in workers[stage_bucket[i].body.task].puts
    /\ pc = "extracted" =>
          Len(stage_bucket) = Len(stage_before)
              + Cardinality(UNION { {<<n, f>> : f \in 1..workers[n].files} : n \in TaskNumbers })

\* C16: the extract tasks of a job are independent under every interleaving:
\* each writes only keys of the batch of its task_number, the key sets are
\* disjoint and the final stage is their union
C16_ExtractsWriteOwnBatch == ExtractsIndependent


(***************************************************************************)
(* Rerun: a job whose extract failed is run again from its clean task      *)
(***************************************************************************)
MaxAttempts == 2

\* clean_stage that deletes nothing
SnowflakeTable_clean_stage_nothing(bucket_, schema_name, table_name) == bucket_

\* clean_stage as a whole: every listed key is sent in a delete request
SnowflakeTable_clean_stage(bucket_, schema_name, table_name) ==
    LET found == objects_filter(bucket_, stage_prefix(schema_name, table_name))
    IN delete_objects(bucket_, [i \in 1..Len(found) |-> found[i].key])

\* the extract tasks of the job before they are called in a run: each hands
\* its task_number to upload_to_stage and has one file or MaxUploads files
\* to put
FreshWorkers(job_) ==
    { w \in [ {job_.extract[k].task_number : k \in 1..Len(job_.extract)} ->
                [state : {"waiting"}, batch : 0..MaxBatches,
                 files : {1, MaxUploads}, file : {0}, puts : {{}}] ] :
        \A n \in DOMAIN w : w[n].batch = n }

\* the bucket before the first run: objects of another table, and objects an
\* earlier run of the table has left
RerunBuckets ==
    { ObjectsOf("schema0", "table1", a) \o ObjectsOf("schema0", "table10", b) :
        a \in {0, 1}, b \in {0, 1} }

RerunInit ==
    /\ pc = "clean"
    /\ warehouse = Null
    /\ document = Null
    /\ original = Null
    /\ FilterIdle
    /\ plan_table \in ExtractTables
    /\ task_options = DefaultTaskOptions
    /\ job = from_table("schema0", plan_table, task_options, 0, Today)
    /\ uuid_count = UuidsOf(job)
    /\ RunIdle
    /\ WireIdle
    /\ StoreIdle
    /\ EncIdle
    /\ JobsIdle
    /\ RangeIdle
    /\ EnvIdle
    /\ stage_bucket \in RerunBuckets
    /\ stage_before = <<>>
    /\ stage_table = <<"schema0", plan_table.name>>
    /\ listed = <<>>
    /\ counter = 0
    /\ delete_requests = <<>>
    /\ clean_result = NoneInt
    /\ workers \in FreshWorkers(job)
    /\ attempt = 1
    /\ current = 0

\* job.clean(warehouse)
RerunClean ==
    /\ pc = "clean"
    /\ stage_bucket' = SnowflakeTable_clean_stage(stage_bucket, stage_table[1], stage_table[2])
    /\ current' = 1
    /\ pc' = "extract"
    /\ UNCHANGED <<notExtractVars, job, stage_before, stage_table, listed, counter,
                   delete_requests, clean_result, workers, attempt>>

\* the extract task at work puts its next file
RerunUpload ==
    /\ pc = "extract"
    /\ LET n == job.extract[current].task_number
           file_number == workers[n].file + 1
           key == stage_key(stage_table[1], stage_table[2], workers[n].batch, file_number)
       IN /\ workers[n].file < workers[n].files
          /\ stage_bucket' = put_object(stage_bucket, key,
                                        [task |-> n, file |-> file_number, attempt |-> attempt])
          /\ workers' = [workers EXCEPT ![n].state = "uploading", ![n].file = file_number,
                                        ![n].puts = @ \cup {key}]
    /\ UNCHANGED <<pc, notExtractVars, job, stage_before, stage_table, listed, counter,
                   delete_requests, clean_result, attempt, current>>

\* the extract task at work returns: the next extract task, or the load task
RerunExtractReturn ==
    /\ pc = "extract"
    /\ LET n == job.extract[current].task_number
       IN /\ workers[n].file = workers[n].files
          /\ workers' = [workers EXCEPT ![n].state = "returned"]
    /\ IF current < Len(job.extract)
       THEN current' = current + 1 /\ pc' = "extract"
       ELSE current' = 0 /\ pc' = "load"
    /\ UNCHANGED <<notExtractVars, job, cleanVars, attempt>>

\* the extract task at work raises or is cancelled with the files it has put
\* left in the bucket: the run of the job ends
RerunExtractFail ==
    /\ pc = "extract"
    /\ workers' = [workers EXCEPT ![job.extract[current].task_number].state = "failed"]
    /\ pc' = "failed"
    /\ UNCHANGED <<notExtractVars, job, cleanVars, attempt, current>>

\* the job is run again from its clean task; stage_before keeps the bucket
\* as the failed run left it
Rerun ==
    /\ pc = "failed"
    /\ attempt < MaxAttempts
    /\ attempt' = attempt + 1
    /\ stage_before' = stage_bucket
    /\ workers' \in FreshWorkers(job)
    /\ current' = 0
    /\ pc' = "clean"
    /\ UNCHANGED <<notExtractVars, job, stage_bucket, stage_table, listed, counter,
                   delete_requests, clean_result>>

\* job.load(warehouse) starts
RerunLoad ==
    /\ pc = "load"
    /\ pc' = "loading"
    /\ UNCHANGED <<notExtractVars, job, cleanVars, extractVars>>

RerunNext ==
    \/ RerunClean
    \/ RerunUpload
    \/ RerunExtractReturn
    \/ RerunExtractFail
    \/ Rerun
    \/ RerunLoad

SpecRerun == RerunInit /\ [][RerunNext]_vars

\* the objects of the table at work in the bucket
StageOf(bucket_) ==
    SelectSeq(bucket_, LAMBDA obj :
        obj.key.dir = stage_key(stage_table[1], stage_table[2], 0, 0).dir)

\* C17: when the load task of a run starts, the prefix of the table holds
\* the objects the extract tasks of this run have put and no others, also
\* when a failed run before it has put more files than this run
C17_RetrySafety ==
    pc \in {"load", "loading"} =>
        /\ BucketKeys(StageOf(stage_bucket)) = UNION { workers[n].puts : n \in DOMAIN workers }
        /\ \A i \in 1..Len(StageOf(stage_bucket)) :
              StageOf(stage_bucket)[i].body.attempt = attempt

\* the load of a rerun starts after a failed run that had left in the bucket
\* a file the rerun has not written
C17_Witness ==
    /\ pc = "loading"
    /\ attempt = 2
    /\ \E i \in 1..Len(stage_before) :
          /\ stage_before[i].body.attempt = 1
          /\ stage_before[i].key \notin BucketKeys(stage_bucket)
    /\ StageOf(stage_bucket) # <<>>

(***************************************************************************)
(* Jobs: the jobs of two tables run side by side                           *)
(***************************************************************************)
\* f'{name}{suffix}' on the names of the model
concat(name, suffix) ==
    CASE suffix = "" -> name
      [] name = "table1" /\ suffix = "_stage" -> "table1_stage"
      [] name = "table10" /\ suffix = "_stage" -> "table10_stage"
      [] name = "table1_stage" /\ suffix = "_stage" -> "table1_stage_stage"

\* the warehouse table a statement names with f'{self.table_uri}{suffix}'
qualified(uri) ==
    [database |-> uri.database, schema |-> uri.schema, table |-> concat(uri.table, uri.suffix)]

\* the tables of the catalog that get a job: <<schema name, table>>
JobTables ==
    { <<"schema0", Table("SnowflakeTable", "table1", None,
                         [DefaultMeta EXCEPT !.timestamp_field = "column1"],
                         <<column0, column1>>)>>,
      <<"schema0", Table("SnowflakeTableUpsert", "table1", None,
                         [DefaultMeta EXCEPT !.primary_key = "column0"],
                         <<column0, column1>>)>>,
      <<"schema0", Table("SnowflakeTableUpsert", "table10", None,
                         [DefaultMeta EXCEPT !.primary_key = "column0",
                                             !.timestamp_field = "column1"],
                         <<column0, column1>>)>>,
      <<"schema0", Table("SnowflakeTable", "table1_stage", None, DefaultMeta,
                         <<column0, column1>>)>>,
      <<"schema1", Table("SnowflakeTable", "table1", None, DefaultMeta,
                         <<column0, column1>>)>> }

\* the warehouse tables the statements of the model can name
QualifiedNames ==
    { qualified(table_uri(st[1], st[2], suffix)) :
        st \in JobTables, suffix \in {"", default_stage_suffix} }

\* the steps of the job of a table: clean, one extract, the load statements
\* and the watermark
Steps(st) ==
    <<[cmd |-> "CLEAN"], [cmd |-> "EXTRACT"]>>
        \o Values(load_stmt(st[1], st[2]).value)
        \o (IF Truthy(st[2].meta.timestamp_field) THEN <<select_max_stmt(st[1], st[2])>>
            ELSE <<>>)

\* the rows the files under a stage path hold: one row per file
StagedRows(bucket_, from) ==
    LET found == objects_filter(bucket_, stage_prefix(from[1], from[2]))
    IN { found[i].key : i \in 1..Len(found) }

\* one step of a job on what the jobs share; a statement on a table that
\* does not exist, and CREATE of a table that exists, is a ProgrammingError
ApplyStep(state, st, step) ==
    LET db == state.db
        Exists(t) == db[t].exists
        Set(t, rows) == Ok([state EXCEPT !.db[t] = [exists |-> TRUE, rows |-> rows]])
    IN CASE step.cmd = "CLEAN" ->
              Ok([state EXCEPT !.bucket = SnowflakeTable_clean_stage(@, st[1], st[2].name)])
         [] step.cmd = "EXTRACT" ->
              Ok([state EXCEPT !.bucket =
                    put_object(@, stage_key(st[1], st[2].name, 0, 1),
                               [task |-> 0, file |-> 1, attempt |-> 1])])
         [] step.cmd = "TRUNCATE" ->
              IF Exists(qualified(step.table)) THEN Set(qualified(step.table), {})
              ELSE Ok(state)
         [] step.cmd = "COPY" ->
              IF Exists(qualified(step.table))
              THEN Set(qualified(step.table),
                       db[qualified(step.table)].rows \cup StagedRows(state.bucket, step.from))
              ELSE Raise("ProgrammingError")
         [] step.cmd = "UPDATE" ->
              IF Exists(qualified(step.table)) THEN Ok(state) ELSE Raise("ProgrammingError")
         [] step.cmd = "DROP" ->
              Ok([state EXCEPT !.db[qualified(step.table)] = [exists |-> FALSE, rows |-> {}]])
         [] step.cmd = "CREATE" ->
              IF ~Exists(qualified(step.table)) /\ Exists(qualified(step.like))
              THEN Set(qualified(step.table), {})
              ELSE Raise("ProgrammingError")
         [] step.cmd = "DELETE" ->
              IF Exists(qualified(step.table)) /\ Exists(qualified(step.using))
              THEN Set(qualified(step.table),
                       db[qualified(step.table)].rows \ db[qualified(step.using)].rows)
              ELSE Raise("ProgrammingError")
         [] step.cmd = "INSERT" ->
              IF Exists(qualified(step.table)) /\ Exists(qualified(step.select))
              THEN Set(qualified(step.table),
                       db[qualified(step.table)].rows \cup db[qualified(step.select)].rows)
              ELSE Raise("ProgrammingError")
         [] step.cmd = "SELECT" ->
              IF Exists(qualified(step.table))
              THEN Ok([state EXCEPT !.marks =
                         [k \in DOMAIN @ \cup {qualified(step.table)} |->
                            IF k = qualified(step.table) THEN db[qualified(step.table)].rows
                            ELSE @[k]]])
              ELSE Raise("ProgrammingError")

\* the whole job of a table run alone, up to the step that raises
RunJob(state, st) ==
    LET F[i \in 0..Len(Steps(st))] ==
            IF i = 0 THEN Ok(state)
            ELSE IF ~F[i-1].ok THEN F[i-1]
            ELSE LET next == ApplyStep(F[i-1].value, st, Steps(st)[i])
                 IN IF next.ok THEN next ELSE [ok |-> FALSE, value |-> F[i-1].value]
    IN F[Len(Steps(st))].value

\* the row a table holds before the jobs
OldRow(st) == stage_key(st[1], st[2].name, 0, 0)

JobsInit ==
    /\ pc = "jobs"
    /\ warehouse = Null
    /\ document = Null
    /\ original = Null
    /\ FilterIdle
    /\ PlanIdle
    /\ RunIdle
    /\ WireIdle
    /\ StoreIdle
    /\ EncIdle
    /\ CleanIdle
    /\ ExtractIdle
    /\ RangeIdle
    /\ EnvIdle
    /\ \E a \in JobTables, b \in JobTables :
          /\ <<a[1], a[2].name>> # <<b[1], b[2].name>>
          /\ procs = <<[st |-> a, step |-> 1, raised |-> FALSE],
                       [st |-> b, step |-> 1, raised |-> FALSE]>>
          /\ \E leftover \in BOOLEAN :
                shared = [db |-> [t \in QualifiedNames |->
                                    IF t = qualified(table_uri(a[1], a[2], ""))
                                    THEN [exists |-> TRUE, rows |-> {OldRow(a)}]
                                    ELSE IF t = qualified(table_uri(b[1], b[2], ""))
                                    THEN [exists |-> TRUE, rows |-> {OldRow(b)}]
                                    ELSE [exists |-> FALSE, rows |-> {}]],
                          bucket |-> IF leftover
                                     THEN ObjectsOf(a[1], a[2].name, 1)
                                     ELSE <<>>,
                          marks |-> <<>>]
    /\ shared_before = shared

\* the next task of a job, or the next statement of its load task
JobStep(p) ==
    /\ pc = "jobs"
    /\ ~procs[p].raised
    /\ procs[p].step <= Len(Steps(procs[p].st))
    /\ LET next == ApplyStep(shared, procs[p].st, Steps(procs[p].st)[procs[p].step])
       IN IF next.ok
          THEN /\ shared' = next.value
               /\ procs' = [procs EXCEPT ![p].step = @ + 1]
          ELSE /\ shared' = shared
               /\ procs' = [procs EXCEPT ![p].raised = TRUE]
    /\ UNCHANGED <<pc, catalogVars, filterVars, planVars, runVars, wireVars, storeVars,
                   encVars, cleanVars, extractVars, rangeVars, envVars, shared_before>>

JobsNext == \E p \in {1, 2} : JobStep(p)

SpecJobs == JobsInit /\ [][JobsNext]_vars

\* the warehouse tables the job of a table writes
WritesOf(st) ==
    { qualified(table_uri(st[1], st[2], suffix)) : suffix \in {"", default_stage_suffix} }

Finished(p) == procs[p].raised \/ procs[p].step > Len(Steps(procs[p].st))

\* C18: the jobs of two distinct tables share no warehouse table they write
\* (target and staging table), no stage key prefix and no watermark key, and
\* when both have ended what they leave is what they leave run one after
\* the other
C18_JobsIndependent ==
    LET a == procs[1].st
        b == procs[2].st
    IN /\ WritesOf(a) \cap WritesOf(b) = {}
       /\ ~IsPrefix(stage_prefix(a[1], a[2].name), stage_prefix(b[1], b[2].name))
       /\ ~IsPrefix(stage_prefix(b[1], b[2].name), stage_prefix(a[1], a[2].name))
       /\ qualified(table_uri(a[1], a[2], "")) # qualified(table_uri(b[1], b[2], ""))
       /\ (Finished(1) /\ Finished(2)) =>
             /\ shared = RunJob(RunJob(shared_before, a), b)
             /\ shared = RunJob(RunJob(shared_before, b), a)

(***************************************************************************)
(* TimeRange (tasks.py) and the watermark read (tables.py)                 *)
(***************************************************************************)
\* TimeRange.min_start_str and TimeRange.max_end_str: datetime(1900, 1, 1)
\* and datetime(2100, 12, 31), both at midnight, as strings
min_start_str == "1900-01-01T00:00:00"
max_end_str == "2100-12-31T00:00:00"

\* the string of a date of the task options: day 1 is 2024-01-01
DateStrings ==
    <<"2024-01-01", "2024-01-02", "2024-01-03", "2024-01-04", "2024-01-05", "2024-01-06">>

date_str(day) == IF day = NoneInt THEN None ELSE DateStrings[day]

\* len(date_str) == 10
is_date(s) == \E d \in 1..Len(DateStrings) : DateStrings[d] = s

\* datetime.strptime(datetime_str, default_timestamp_format): day number and
\* time of day
strptime(s) ==
    CASE s = "2024-01-01T00:00:00" -> Ok([day |-> 1, time |-> "00:00:00"])
      [] s = "2024-01-02T00:00:00" -> Ok([day |-> 2, time |-> "00:00:00"])
      [] s = "2024-01-03T00:00:00" -> Ok([day |-> 3, time |-> "00:00:00"])
      [] s = "2024-01-02T12:30:00" -> Ok([day |-> 2, time |-> "12:30:00"])
      [] s = min_start_str -> Ok([day |-> 1 - 45290, time |-> "00:00:00"])
      [] s = max_end_str -> Ok([day |-> 28124, time |-> "00:00:00"])
      [] OTHER -> Raise("ValueError")

\* SnowflakeTable.get_latest_timestamp
get_latest_timestamp(store, schema_name, table) ==
    IF table.meta.timestamp_field = None THEN Raise("ValueError")
    ELSE LET key == table_uri(schema_name, table, "")
         IN IF key \in DOMAIN store /\ store[key].field = table.meta.timestamp_field
            THEN Ok(store[key].value)
            ELSE Ok(None)

TimeRange(start, end) == [start |-> start, end |-> end]

\* TimeRange.from_task that asks the store before the options
TimeRange_from_task_store_first(options, schema_name, table, store) ==
    LET found == IF Truthy(table.meta.timestamp_field)
                 THEN get_latest_timestamp(store, schema_name, table).value ELSE None
    IN [range |-> TimeRange(IF found # None THEN found ELSE date_str(options.start),
                            date_str(options.end)),
        reads |-> IF Truthy(table.meta.timestamp_field) THEN 1 ELSE 0]

\* TimeRange.from_task: the range, and the number of reads of the store
TimeRange_from_task(options, schema_name, table, store) ==
    LET start == date_str(options.start)
        end == date_str(options.end)
        asks == start = None /\ Truthy(table.meta.timestamp_field)
    IN [range |-> TimeRange(IF asks
                            THEN get_latest_timestamp(store, schema_name, table).value
                            ELSE start,
                            end),
        reads |-> IF asks THEN 1 ELSE 0]

\* TimeRange.start_str and TimeRange.end_str
start_str(range) == IF Truthy(range.start) THEN range.start ELSE min_start_str
end_str(range) == IF Truthy(range.end) THEN range.end ELSE max_end_str

\* the day of a date-only string
day_of(s) == CHOOSE d \in 1..Len(DateStrings) : DateStrings[d] = s

\* TimeRange.start_datetime / end_datetime: a date-only string gets the
\* start or the end of its day
start_datetime(range) ==
    IF is_date(start_str(range))
    THEN Ok([day |-> day_of(start_str(range)), time |-> "00:00:00"])
    ELSE strptime(start_str(range))

end_datetime(range) ==
    IF is_date(end_str(range))
    THEN Ok([day |-> day_of(end_str(range)), time |-> "23:59:59"])
    ELSE strptime(end_str(range))

\* TimeRange.start_date / end_date as day numbers
start_date(range) == start_datetime(range).value.day
end_date(range) == end_datetime(range).value.day

\* get_batch_n that counts the days between the dates
get_batch_n_exclusive(range) ==
    IF range.start = None \/ range.end = None THEN Raise("ValueError")
    ELSE Ok(end_date(range) - start_date(range))

\* TimeRange.get_batch_n
get_batch_n(range) ==
    IF range.start = None \/ range.end = None THEN Raise("ValueError")
    ELSE Ok((end_date(range) - start_date(range)) + 1)

\* TimeRange.get_batch_date
get_batch_date(range, batch_number) ==
    IF range.start = None \/ range.end = None THEN Raise("ValueError")
    ELSE LET batch_date == start_date(range) + batch_number
         IN IF batch_date > end_date(range) THEN Raise("ValueError")
            ELSE Ok(batch_date)

(***************************************************************************)
(* Range: watermarks are put, a task gets its TimeRange and its batches    *)
(***************************************************************************)
MaxRangeDays == 3
MaxPuts == 2
MaxBatchNumber == 3

RangeTables ==
    { Table("SnowflakeTable", "table0", None,
            [DefaultMeta EXCEPT !.timestamp_field = timestamp_field], <<column0, column1>>) :
        timestamp_field \in {None, "column1"} }

\* a table of the same schema that has a watermark of its own
OtherTable ==
    Table("SnowflakeTable", "table1", None, [DefaultMeta EXCEPT !.timestamp_field = "column1"],
          <<column0, column1>>)

RangeOptions ==
    { [DefaultTaskOptions EXCEPT !.start = start, !.end = end] :
        start \in {NoneInt} \cup 1..MaxRangeDays, end \in {NoneInt} \cup 1..MaxRangeDays }

\* what load_from_stage and the callers of set_latest_timestamp hand over
PutValues ==
    {"2024-01-01T00:00:00", "2024-01-02T12:30:00", "datetime(2024, 1, 3)"}

RangeInit ==
    /\ pc = "store"
    /\ warehouse = Null
    /\ document = Null
    /\ original = Null
    /\ FilterIdle
    /\ plan_table \in {<<"schema0", t>> : t \in RangeTables}
    /\ task_options \in RangeOptions
    /\ job = Null
    /\ uuid_count = 0
    /\ RunIdle
    /\ WireIdle
    /\ StoreIdle
    /\ EncIdle
    /\ CleanIdle
    /\ ExtractIdle
    /\ JobsIdle
    /\ EnvIdle
    /\ time_range = Null
    /\ store_reads = 0
    /\ last_put = <<>>
    /\ puts = 0
    /\ batch_call = Null

notRangeVars == <<catalogVars, filterVars, planVars, wireVars, storeVars, encVars, cleanVars,
                  extractVars, jobsVars, envVars, stop_on_error, schedule, job_i, task_i, log,
                  stmts, stmt_i, executed, before, bucket, raised>>

\* table.set_latest_timestamp(value) of the table of the task or of another
\* table; a table without timestamp_field raises and nothing is put
SetLatestTimestamp ==
    /\ pc = "store"
    /\ puts < MaxPuts
    /\ \E t \in {plan_table[2], OtherTable}, value \in PutValues :
          /\ t.meta.timestamp_field # None
          /\ extract_time_table' = set_latest_timestamp(extract_time_table, plan_table[1], t, value)
          /\ last_put' = [k \in DOMAIN last_put \cup {table_uri(plan_table[1], t, "")} |->
                            IF k = table_uri(plan_table[1], t, "") THEN value ELSE last_put[k]]
    /\ puts' = puts + 1
    /\ UNCHANGED <<pc, notRangeVars, time_range, store_reads, batch_call>>

\* time_range = TimeRange.from_task(task, table)
FromTask ==
    /\ pc = "store"
    /\ LET built == TimeRange_from_task(task_options, plan_table[1], plan_table[2],
                                        extract_time_table)
       IN /\ time_range' = built.range
          /\ store_reads' = store_reads + built.reads
    /\ pc' = "ranged"
    /\ UNCHANGED <<notRangeVars, extract_time_table, last_put, puts, batch_call>>

\* time_range.get_batch_n()
GetBatchN ==
    /\ pc = "ranged"
    /\ batch_call' = [fn |-> "get_batch_n", batch_number |-> NoneInt,
                      result |-> get_batch_n(time_range)]
    /\ UNCHANGED <<pc, notRangeVars, extract_time_table, time_range, store_reads, last_put,
                   puts>>

\* time_range.get_batch_date(batch_number)
GetBatchDate ==
    /\ pc = "ranged"
    /\ \E batch_number \in 0..MaxBatchNumber :
          batch_call' = [fn |-> "get_batch_date", batch_number |-> batch_number,
                         result |-> get_batch_date(time_range, batch_number)]
    /\ UNCHANGED <<pc, notRangeVars, extract_time_table, time_range, store_reads, last_put,
                   puts>>

\* time_range.start_str, .end_str, .start_datetime and .end_datetime are read
StartEndDatetime ==
    /\ pc = "ranged"
    /\ result = <<>>
    /\ result' = [start_str |-> start_str(time_range), end_str |-> end_str(time_range),
                  start_datetime |-> start_datetime(time_range),
                  end_datetime |-> end_datetime(time_range)]
    /\ UNCHANGED <<pc, catalogVars, schema_names, table_names, stratify, planVars, runVars,
                   extVars>>

RangeNext == SetLatestTimestamp \/ FromTask \/ GetBatchN \/ GetBatchDate \/ StartEndDatetime

SpecRange == RangeInit /\ [][RangeNext]_vars

\* the watermark of the table of the task: what the last completed put for
\* its table_uri has stored, None when there was no put
CommittedWatermark ==
    LET key == table_uri(plan_table[1], plan_table[2], "")
    IN IF key \in DOMAIN last_put THEN strftime(last_put[key]) ELSE None

\* C19: the start of the TimeRange of a task is options.start when it is set,
\* and the store is not read then; else the watermark of the last completed
\* put for the table_uri when the table has a timestamp_field and a
\* watermark; else the effective start is MIN_START
C19_WatermarkFeedthrough ==
    pc = "ranged" =>
        IF task_options.start # NoneInt
        THEN /\ start_str(time_range) = date_str(task_options.start)
             /\ store_reads = 0
        ELSE IF Truthy(plan_table[2].meta.timestamp_field) /\ CommittedWatermark # None
        THEN /\ time_range.start = CommittedWatermark
             /\ start_str(time_range) = CommittedWatermark
             /\ store_reads = 1
        ELSE start_str(time_range) = min_start_str

\* a task without options.start got the watermark of the second of two puts
\* for its table, a datetime stored as its string
C19_Witness ==
    /\ pc = "ranged"
    /\ task_options.start = NoneInt
    /\ puts = 2
    /\ DOMAIN last_put = {table_uri(plan_table[1], plan_table[2], "")}
    /\ time_range.start = "2024-01-03T00:00:00"
    /\ store_reads = 1

C25_TimeRangeDefaults ==
    (pc = "ranged" /\ result # <<>>) =>
        /\ time_range.end = None =>
              /\ result.end_str = "2100-12-31T23:59:59"
              /\ result.end_datetime.ok
              /\ result.end_datetime.value.time = "23:59:59"
        /\ time_range.start = None =>
              /\ result.start_str = "1900-01-01T00:00:00"
              /\ result.start_datetime.ok
              /\ result.start_datetime.value.time = "00:00:00"
        /\ \A d \in 1..Len(DateStrings) :
              /\ time_range.start = DateStrings[d] =>
                    result.start_datetime = Ok([day |-> d, time |-> "00:00:00"])
              /\ time_range.end = DateStrings[d] =>
                    result.end_datetime = Ok([day |-> d, time |-> "23:59:59"])

(***************************************************************************)
(* Load: LoadTask.__call__ and load_from_stage on a warehouse with rows    *)
(***************************************************************************)
MaxLoads == 2

\* the rows of the model: column0 is a key, column1 a day of January 2024
LoadDays == {2, 3}

LoadRows == {[column0 |-> k, column1 |-> d] : k \in {1, 2}, d \in LoadDays}

\* the datetime the connector returns for a day
datetime(day) ==
    CASE day = 2 -> "datetime(2024, 1, 2)"
      [] day = 3 -> "datetime(2024, 1, 3)"

MaxOf(S) == CHOOSE m \in S : \A x \in S : x <= m
MinOf(S) == CHOOSE m \in S : \A x \in S : m <= x

\* the WHERE clause of the DELETE statements on a row of the target
delete_where(stmt, row, staging_rows) ==
    IF stmt.match = "primary_key"
    THEN \E s \in staging_rows :
            \A i \in 1..Len(stmt.where) : row[stmt.where[i]] = s[stmt.where[i]]
    ELSE /\ staging_rows # {}
         /\ row[stmt.where[1]] >= MinOf({s[stmt.where[1]] : s \in staging_rows})
         /\ row[stmt.where[1]] <= MaxOf({s[stmt.where[1]] : s \in staging_rows})

\* cursor.execute(stmt) of load_from_stage on the tables of the warehouse
\* and the rows of the files in the stage; a statement on a table that does
\* not exist, and CREATE of a table that exists, is a ProgrammingError
cursor_execute(state, stmt) ==
    LET db == state.db
        Exists(t) == db[t].exists
        Set(t, rows) == Ok([state EXCEPT !.db[t] = [exists |-> TRUE, rows |-> rows]])
    IN CASE stmt.cmd = "TRUNCATE" ->
              IF Exists(qualified(stmt.table)) THEN Set(qualified(stmt.table), {})
              ELSE Ok(state)
         [] stmt.cmd = "COPY" ->
              IF Exists(qualified(stmt.table))
              THEN Set(qualified(stmt.table), db[qualified(stmt.table)].rows \cup state.staged)
              ELSE Raise("ProgrammingError")
         [] stmt.cmd = "UPDATE" ->
              IF Exists(qualified(stmt.table)) THEN Ok(state) ELSE Raise("ProgrammingError")
         [] stmt.cmd = "DROP" ->
              Ok([state EXCEPT !.db[qualified(stmt.table)] = [exists |-> FALSE, rows |-> {}]])
         [] stmt.cmd = "CREATE" ->
              IF ~Exists(qualified(stmt.table)) /\ Exists(qualified(stmt.like))
              THEN Set(qualified(stmt.table), {})
              ELSE Raise("ProgrammingError")
         [] stmt.cmd = "DELETE" ->
              IF Exists(qualified(stmt.table)) /\ Exists(qualified(stmt.using))
              THEN Set(qualified(stmt.table),
                       {r \in db[qualified(stmt.table)].rows :
                           ~delete_where(stmt, r, db[qualified(stmt.using)].rows)})
              ELSE Raise("ProgrammingError")
         [] stmt.cmd = "INSERT" ->
              IF Exists(qualified(stmt.table)) /\ Exists(qualified(stmt.select))
              THEN Set(qualified(stmt.table),
                       db[qualified(stmt.table)].rows \cup db[qualified(stmt.select)].rows)
              ELSE Raise("ProgrammingError")

\* cursor.fetchone()[0] after SELECT MAX(<timestamp_field>) FROM <table_uri>
fetchone_max(state, stmt) ==
    LET t == state.db[qualified(stmt.table)]
    IN IF ~t.exists THEN Raise("ProgrammingError")
       ELSE IF t.rows = {} THEN Ok(None)
       ELSE Ok(datetime(MaxOf({r[stmt.max] : r \in t.rows})))

LoadTables ==
    { Table("SnowflakeTable", "table1", None,
            [DefaultMeta EXCEPT !.timestamp_field = "column1"], <<column0, column1>>),
      Table("SnowflakeTableUpsert", "table1", None,
            [DefaultMeta EXCEPT !.primary_key = "column0", !.timestamp_field = "column1"],
            <<column0, column1>>),
      Table("SnowflakeTableUpsert", "table1", None,
            [DefaultMeta EXCEPT !.timestamp_key = "column1", !.timestamp_field = "column1"],
            <<column0, column1>>),
      Table("SnowflakeTableUpsert", "table1", None,
            [DefaultMeta EXCEPT !.primary_key = "column0", !.truncate = "True"],
            <<column0, column1>>) }

\* the watermark of another table of the schema
OtherKey == table_uri("schema0", [name |-> "table0"], "")

OtherItem == [field |-> "column1", value |-> "2024-01-02T00:00:00"]

\* the watermarks the store can hold for the table before a load
StoredWatermarks == {None, "2024-01-01T00:00:00", "2024-01-03T00:00:00"}

notLoadVars == <<catalogVars, filterVars, task_options, job, uuid_count, stop_on_error,
                 schedule, job_i, task_i, log, bucket, wireVars, storeVars, encVars,
                 cleanVars, workers, current, procs, rangeVars, envVars>>

LoadInit ==
    /\ pc = "load_task"
    /\ warehouse = Null
    /\ document = Null
    /\ FilterIdle
    /\ plan_table \in {<<"schema0", t>> : t \in LoadTables}
    /\ original = plan_table
    /\ task_options = Null
    /\ job = Null
    /\ uuid_count = 0
    /\ stop_on_error = FALSE
    /\ schedule = <<>>
    /\ job_i = 0
    /\ task_i = 0
    /\ log = <<>>
    /\ stmts = <<>>
    /\ stmt_i = 0
    /\ executed = <<>>
    /\ \E stored \in StoredWatermarks :
          extract_time_table =
             [k \in {OtherKey} \cup (IF stored = None THEN {}
                                     ELSE {table_uri("schema0", plan_table[2], "")}) |->
                IF k = OtherKey THEN OtherItem ELSE [field |-> "column1", value |-> stored]]
    /\ before = extract_time_table
    /\ bucket = {}
    /\ raised = None
    /\ WireIdle
    /\ StoreIdle
    /\ EncIdle
    /\ CleanIdle
    /\ workers = <<>>
    /\ attempt = 0
    /\ current = 0
    /\ RangeIdle
    /\ EnvIdle
    /\ procs = <<>>
    /\ \E rows \in SUBSET LoadRows, staged \in SUBSET LoadRows, leftover \in BOOLEAN :
          /\ Cardinality(rows) <= 1
          /\ shared =
               [db |-> [t \in {qualified(table_uri("schema0", plan_table[2], suffix)) :
                                 suffix \in {"", default_stage_suffix}} |->
                          IF t = qualified(table_uri("schema0", plan_table[2], ""))
                          THEN [exists |-> TRUE, rows |-> rows]
                          ELSE [exists |-> leftover, rows |-> {}]],
                staged |-> staged]
    /\ shared_before = shared

\* LoadTask.__call__: an override of truncate is written to the policy of
\* the table, then load_from_stage starts with table.load_stmt()
LoadTaskCall ==
    /\ pc = "load_task"
    /\ attempt < MaxLoads
    /\ \E truncate \in {"None", "True", "False"} :
          LET table == IF truncate # "None"
                       THEN [plan_table[2] EXCEPT !.meta.truncate = truncate]
                       ELSE plan_table[2]
              found == load_stmt(plan_table[1], table)
          IN /\ plan_table' = <<plan_table[1], table>>
             /\ stmts' = Values(found.value)
    /\ stmt_i' = 1
    /\ executed' = <<>>
    /\ raised' = None
    /\ attempt' = attempt + 1
    /\ before' = extract_time_table
    /\ shared_before' = shared
    /\ pc' = "execute"
    /\ UNCHANGED <<notLoadVars, extract_time_table, shared>>

\* one turn of the for loop: cursor.execute(stmt) returns or raises
LoadExecute ==
    /\ pc = "execute"
    /\ stmt_i <= Len(stmts)
    /\ \E fails \in BOOLEAN :
          LET next == IF fails THEN Raise("ProgrammingError")
                      ELSE cursor_execute(shared, stmts[stmt_i])
          IN IF next.ok
             THEN /\ shared' = next.value
                  /\ executed' = Append(executed, stmts[stmt_i])
                  /\ stmt_i' = stmt_i + 1
                  /\ UNCHANGED <<pc, raised>>
             ELSE /\ raised' = next.error
                  /\ pc' = "loaded"
                  /\ UNCHANGED <<shared, executed, stmt_i>>
    /\ UNCHANGED <<notLoadVars, plan_table, stmts, extract_time_table, before, shared_before,
                   attempt>>

\* after the loop, with timestamp_field: SELECT MAX and set_latest_timestamp
LoadSelectMax ==
    /\ pc = "execute"
    /\ stmt_i > Len(stmts)
    /\ Truthy(plan_table[2].meta.timestamp_field)
    /\ \E fails \in BOOLEAN :
          LET stmt == select_max_stmt(plan_table[1], plan_table[2])
              found == IF fails THEN Raise("ProgrammingError") ELSE fetchone_max(shared, stmt)
          IN IF found.ok
             THEN /\ executed' = Append(executed, stmt)
                  /\ extract_time_table' =
                        set_latest_timestamp(extract_time_table, plan_table[1], plan_table[2],
                                             found.value)
                  /\ raised' = raised
             ELSE /\ raised' = found.error
                  /\ UNCHANGED <<executed, extract_time_table>>
    /\ pc' = "loaded"
    /\ UNCHANGED <<notLoadVars, plan_table, stmts, stmt_i, before, shared, shared_before,
                   attempt>>

\* after the loop, no timestamp_field: load_from_stage returns
LoadFinish ==
    /\ pc = "execute"
    /\ stmt_i > Len(stmts)
    /\ ~Truthy(plan_table[2].meta.timestamp_field)
    /\ pc' = "loaded"
    /\ UNCHANGED <<notLoadVars, plan_table, stmts, stmt_i, executed, extract_time_table,
                   before, raised, shared, shared_before, attempt>>

\* the next LoadTask of the table finds what the last one left
LoadAgain ==
    /\ pc = "loaded"
    /\ attempt < MaxLoads
    /\ pc' = "load_task"
    /\ UNCHANGED <<notLoadVars, plan_table, stmts, stmt_i, executed, extract_time_table,
                   before, raised, shared, shared_before, attempt>>

LoadNext == LoadTaskCall \/ LoadExecute \/ LoadSelectMax \/ LoadFinish \/ LoadAgain

SpecLoad == LoadInit /\ [][LoadNext]_vars

LoadKey == table_uri(plan_table[1], plan_table[2], "")

TargetRows == shared.db[qualified(LoadKey)].rows

C27_CatalogImmutable ==
    plan_table = original

\* C28: in upsert mode the target holds the rows it held when the load
\* started until DELETE has run, whichever of DROP, CREATE, COPY and UPDATE
\* on the staging table raises; in overwrite mode the target is empty when
\* COPY runs and when COPY raises
C28_TargetWrittenLast ==
    (pc \in {"execute", "loaded"}) =>
        /\ (stmts[1].cmd = "DROP" /\ stmt_i <= 5) =>
              shared.db[qualified(LoadKey)] = shared_before.db[qualified(LoadKey)]
        /\ (stmts[1].cmd = "TRUNCATE" /\ stmt_i = 2) => TargetRows = {}

C28_Witness ==
    /\ pc = "loaded"
    /\ raised = "ProgrammingError"
    /\ stmts[1].cmd = "DROP"
    /\ stmt_i = 3
    /\ shared.db[qualified(table_uri(plan_table[1], plan_table[2], default_stage_suffix))].exists
    /\ TargetRows # {}
    /\ shared.staged # {}
    /\ ~(shared.staged \subseteq TargetRows)

(***************************************************************************)
(* Planner: from_table and Schedule.from_tables on one options object      *)
(***************************************************************************)
\* the tables handed to the planner: the second one gets its own name
PlanLists ==
    LET tables == {t \in PlanTables : t.meta.truncate = None}
    IN { <<<<"schema0", t>>>> : t \in tables }
         \cup { << <<"schema0", t>>, <<"schema0", [u EXCEPT !.name = "table1"]>> >> :
                  t \in tables, u \in tables }

PlanAllInit ==
    /\ ExtIdle
    /\ pc = "plan_all"
    /\ warehouse = Null
    /\ document = Null
    /\ task_options \in PlanOptions \ {Null}
    /\ original = task_options
    /\ schema_names = NoneList
    /\ table_names = NoneList
    /\ stratify = FALSE
    /\ result \in PlanLists
    /\ plan_table = Null
    /\ job = Null
    /\ uuid_count = 0
    /\ RunIdle

\* job = ExtractLoadJob.from_table(tables[0], options)
PlanOne ==
    /\ pc = "plan_all"
    /\ job' = from_table(result[1][1], result[1][2], task_options, uuid_count, Today)
    /\ task_options' = from_table_task_options(result[1][2], task_options, Today)
    /\ uuid_count' = uuid_count + UuidsOf(job')
    /\ pc' = "planned_one"
    /\ UNCHANGED <<extVars, catalogVars, filterVars, plan_table, runVars>>

\* schedule = Schedule.from_tables(tables, options)
PlanAll ==
    /\ pc = "plan_all"
    /\ LET planned == from_tables(result, task_options, uuid_count, Today)
       IN /\ schedule' = planned[1]
          /\ uuid_count' = planned[2]
          /\ task_options' = planned[3]
    /\ pc' = "planned_all"
    /\ UNCHANGED <<extVars, catalogVars, filterVars, plan_table, job, stop_on_error, job_i,
                   task_i, log, stmts, stmt_i, executed, extract_time_table, before, bucket,
                   raised>>

PlanAllNext == PlanOne \/ PlanAll

SpecPlanAll == PlanAllInit /\ [][PlanAllNext]_vars

\* C22: from_table and from_tables leave the options object of the caller
\* as it was handed over, and the Job of every table of a schedule is the Job
\* from_table plans for that table alone from those options: no start, end
\* or batches of the look-back rule of another table
C22_OptionsDoNotLeak ==
    /\ pc \in {"planned_one", "planned_all"} => task_options = original
    /\ pc = "planned_all" =>
          /\ Len(schedule) = Len(result)
          /\ \A i \in 1..Len(schedule) :
                /\ schedule[i] = from_table(result[i][1], result[i][2], original,
                                            schedule[i].job_id - 1, Today)
                /\ ~TruthyInt(result[i][2].meta.look_back_days) =>
                      /\ Len(schedule[i].extract)
                            = Max(original.batches, result[i][2].meta.batches)
                      /\ \A k \in 1..Len(schedule[i].extract) :
                            /\ schedule[i].extract[k].options.start = original.start
                            /\ schedule[i].extract[k].options.end = original.end

\* a table under the look-back rule planned ahead of a table without it
C22_Witness ==
    /\ pc = "planned_all"
    /\ Len(schedule) = 2
    /\ original.start = NoneInt
    /\ original.batches = 1
    /\ result[1][2].meta.look_back_days = 2
    /\ result[1][2].meta.timestamp_key = "column1"
    /\ Len(schedule[1].extract) = 2
    /\ schedule[1].extract[1].options.start = Today - 2
    /\ result[2][2].meta.look_back_days = NoneInt
    /\ result[2][2].meta.batches = 1
    /\ Len(schedule[2].extract) = 1
    /\ schedule[2].extract[1].options.start = NoneInt

MaxKeyNumber == 1

DigitChars == <<"0", "1", "2", "3", "4", "5", "6", "7", "8", "9">>

\* str(n) for n >= 0
str_int(n) ==
    LET F[k \in 0..n] ==
            IF k < 10 THEN <<DigitChars[k + 1]>>
            ELSE F[k \div 10] \o <<DigitChars[(k % 10) + 1]>>
    IN F[n]

\* f'{n:d}': no padding
format_d(n) == str_int(n)

\* f'{n:02d}': zeros on the left up to a width of 2
format_02d(n) == IF Len(str_int(n)) < 2 THEN <<"0">> \o str_int(n) ELSE str_int(n)

\* the characters of a suffix
suffix_chars(suffix) ==
    CASE suffix = "csv.gz" -> <<"c", "s", "v", ".", "g", "z">>
      [] suffix = "parquet" -> <<"p", "a", "r", "q", "u", "e", "t">>

\* SnowflakeTable.get_key for int batch and file, character by character
get_key_str(schema_name, table_name, batch, file, suffix) ==
    LET batch_str == <<"b">> \o format_02d(batch)
        file_str == <<"f">> \o format_02d(file)
        file_name == chars(table_name) \o <<"_">> \o batch_str \o <<"_">> \o file_str
                        \o <<".">> \o suffix_chars(suffix)
    IN chars(schema_name) \o <<"/">> \o chars(table_name) \o <<"/">> \o file_name

\* the batch and file numbers of the model: one, two and three digits
KeyNumbers == 0..MaxKeyNumber \cup {9, 10, 11, 100, 101, 110, 111}

KeyInit ==
    /\ pc = "key"
    /\ warehouse = Null
    /\ document = Null
    /\ original = Null
    /\ schema_names = NoneList
    /\ table_names = NoneList
    /\ stratify = FALSE
    /\ result = <<>>
    /\ plan_table \in {<<"schema0", t>> : t \in RangeTables}
    /\ task_options = Null
    /\ job = Null
    /\ uuid_count = 0
    /\ RunIdle
    /\ WireIdle
    /\ StoreIdle
    /\ EncIdle
    /\ CleanIdle
    /\ ExtractIdle
    /\ JobsIdle
    /\ EnvIdle
    /\ time_range = Null
    /\ store_reads = 0
    /\ last_put = <<>>
    /\ puts = 0
    /\ \E b1 \in KeyNumbers, f1 \in KeyNumbers, b2 \in KeyNumbers, f2 \in KeyNumbers,
          suffix \in {"csv.gz", "parquet"} :
          batch_call = [fn |-> "get_key", first |-> <<b1, f1>>, second |-> <<b2, f2>>,
                        suffix |-> suffix]

\* table.get_key(b1, f1, suffix) and table.get_key(b2, f2, suffix)
GetKey ==
    /\ pc = "key"
    /\ result' = <<get_key_str(plan_table[1], plan_table[2].name, batch_call.first[1],
                               batch_call.first[2], batch_call.suffix),
                   get_key_str(plan_table[1], plan_table[2].name, batch_call.second[1],
                               batch_call.second[2], batch_call.suffix)>>
    /\ pc' = "keyed"
    /\ UNCHANGED <<catalogVars, schema_names, table_names, stratify, planVars, runVars,
                   extVars>>

KeyNext == GetKey

SpecKey == KeyInit /\ [][KeyNext]_vars

\* the number a string of decimal digits stands for, -1 when a character is
\* no digit
DigitsValue(digits) ==
    LET F[i \in 0..Len(digits)] ==
            IF i = 0 THEN 0
            ELSE IF F[i-1] < 0 \/ ~\E d \in 1..10 : DigitChars[d] = digits[i] THEN 0 - 1
            ELSE 10 * F[i-1] + (CHOOSE d \in 1..10 : DigitChars[d] = digits[i]) - 1
    IN F[Len(digits)]

\* key is <schema>/<table>/<table>_b<BB>_f<FF>.<suffix> for the numbers b, f
KeyFormat(key, schema_name, table_name, b, f, suffix) ==
    LET head == chars(schema_name) \o <<"/">> \o chars(table_name) \o <<"/">>
                   \o chars(table_name) \o <<"_", "b">>
        tail == <<".">> \o suffix_chars(suffix)
    IN \E wb \in 2..3, wf \in 2..3 :
          /\ Len(key) = Len(head) + wb + 2 + wf + Len(tail)
          /\ SubSeq(key, 1, Len(head)) = head
          /\ DigitsValue(SubSeq(key, Len(head) + 1, Len(head) + wb)) = b
          /\ wb = 3 => key[Len(head) + 1] # "0"
          /\ SubSeq(key, Len(head) + wb + 1, Len(head) + wb + 2) = <<"_", "f">>
          /\ DigitsValue(SubSeq(key, Len(head) + wb + 3, Len(head) + wb + 2 + wf)) = f
          /\ wf = 3 => key[Len(head) + wb + 3] # "0"
          /\ SubSeq(key, Len(head) + wb + 2 + wf + 1, Len(key)) = tail

\* C24: get_key(b, f) is <schema>/<table>/<table>_b<BB>_f<FF>.<suffix> with
\* BB and FF the decimal digits of b and f padded with zeros to at least two
\* digits, and two different pairs (b, f) never give the same key
C24_KeyFormat ==
    pc = "keyed" =>
        /\ KeyFormat(result[1], plan_table[1], plan_table[2].name, batch_call.first[1],
                     batch_call.first[2], batch_call.suffix)
        /\ KeyFormat(result[2], plan_table[1], plan_table[2].name, batch_call.second[1],
                     batch_call.second[2], batch_call.suffix)
        /\ batch_call.first # batch_call.second => result[1] # result[2]

\* b=1, f=11 and b=11, f=1: the same digits, two keys
C24_Witness ==
    /\ pc = "keyed"
    /\ batch_call.first = <<1, 11>>
    /\ batch_call.second = <<11, 1>>
    /\ result[1] # result[2]
    /\ Len(result[1]) = Len(result[2])
    /\ batch_call.suffix = "csv.gz"

(***************************************************************************)
(* Schedule: the test-error path                                           *)
(***************************************************************************)
\* C26: a ScheduleTask with options.test_error and table_names returns,
\* without a filter of the catalog, a schedule of one Job whose clean, one
\* extract and load are ErrorTasks, and each of them called sets its envs
\* and raises RuntimeError; without table_names the ScheduleTask raises and
\* returns no schedule; without test_error no schedule holds an ErrorTask
C26_TestErrorPath ==
    pc = "scheduled" =>
        /\ (wire_task.options.test_error /\ TruthyList(wire_task.table_names)) =>
              /\ decoded.ok
              /\ result = <<>>
              /\ Len(decoded.value.schedule) = 1
              /\ Len(decoded.value.schedule[1].extract) = 1
              /\ decoded.value.schedule[1].clean.task_type = "ErrorTask"
              /\ decoded.value.schedule[1].extract[1].task_type = "ErrorTask"
              /\ decoded.value.schedule[1].load.task_type = "ErrorTask"
              /\ \A called \in JobTasks(schedule[1]) :
                    called.task.envs
                        = << <<"FAIL_ON_ERROR", wire_task.options.fail_on_error>> >>
              /\ log # <<>> =>
                    /\ raised = "RuntimeError"
                    /\ environ = << <<"FAIL_ON_ERROR", wire_task.options.fail_on_error>> >>
        /\ (wire_task.options.test_error /\ ~TruthyList(wire_task.table_names)) =>
              /\ ~decoded.ok
              /\ decoded.error = "RuntimeError"
              /\ raised = "RuntimeError"
              /\ schedule = <<>>
        /\ ~wire_task.options.test_error =>
              /\ decoded.ok
              /\ \A k \in 1..Len(schedule) : \A called \in JobTasks(schedule[k]) :
                    called.task.task_type # "ErrorTask"
              /\ \A k \in 1..Len(decoded.value.schedule) :
                    /\ decoded.value.schedule[k].clean.task_type = "CleanTask"
                    /\ decoded.value.schedule[k].load.task_type = "LoadTask"
                    /\ \A e \in 1..Len(decoded.value.schedule[k].extract) :
                          decoded.value.schedule[k].extract[e].task_type = "ExtractTask"
              /\ log = <<>>

\* the three ErrorTasks of the error schedule were called
C26_Witness ==
    /\ pc = "scheduled"
    /\ wire_task.options.test_error
    /\ Len(schedule) = 1
    /\ {log[i].role : i \in 1..Len(log)} = {"clean", "extract", "load"}
    /\ raised = "RuntimeError"
    /\ environ = << <<"FAIL_ON_ERROR", "true">> >>

(***************************************************************************)
(* Wire: from_dict and the map it reads                                    *)
(***************************************************************************)
\* C29: from_dict leaves the map it reads as it was handed over, and
\* from_dict of the same map once more succeeds and gives a task equal to
\* the first one
C29_FromDictKeepsInput ==
    /\ pc \in {"decoded", "decoded_twice"} => wire = original
    /\ pc = "decoded_twice" =>
          /\ decoded.ok
          /\ decoded.value = result[1]

\* C30: in every Job of a schedule a ScheduleTask returns, planned or error
\* schedule, clean, the extracts and load have pairwise different task_id
\* and carry the job_id of the Job, so the job row names N+2 different task
\* rows
C30_TaskIdentity ==
    (pc = "scheduled" /\ decoded.ok) =>
        \A k \in 1..Len(decoded.value.schedule) :
            LET job_ == decoded.value.schedule[k]
                ids == DeclaredOrder(job_)
            IN /\ Cardinality({ids[i] : i \in 1..Len(ids)}) = Len(job_.extract) + 2
               /\ job_.clean.job_id = job_.job_id
               /\ job_.load.job_id = job_.job_id
               /\ \A e \in 1..Len(job_.extract) : job_.extract[e].job_id = job_.job_id
               /\ Len(ExtractLoadJob_to_dynamodb(<<>>, <<>>, schedule[k])[2])
                     = Len(schedule[k].extract) + 2

====
